---- MODULE Spec2Model ----
(***************************************************************************)
(* Recitation grading of src/ai.py: text normalisation, prefix stripping,  *)
(* word matching and the greedy forward aligner of                         *)
(* transcribe_and_compare_audio.                                           *)
(*                                                                         *)
(* A text is a sequence of Unicode code points (naturals).  The Unicode    *)
(* character database is modelled on Basic Latin, U+00A0, the Arabic block *)
(* U+0600..U+06FF and the presentation form U+FE76 (unicodedata 14.0.0).   *)
(* Python's zero-based indices are kept as they are in the variables; a    *)
(* sequence s is read at s[i+1].                                           *)
(***************************************************************************)
EXTENDS Integers, Sequences, FiniteSets, TLC

(***************************************************************************)
(* Code points named by the source.                                        *)
(***************************************************************************)
FATHA == 1614
DAMMA == 1615
KASRA == 1616
RELEVANT_HARAKAT == {FATHA, DAMMA, KASRA}

SPACE == 32
ALEF == 1575
ALEF_MADDA == 1570
ALEF_HAMZA_ABOVE == 1571
ALEF_HAMZA_BELOW == 1573
ALEF_WASLA == 1649
TEH_MARBUTA == 1577
HEH == 1607
ALEF_MAKSURA == 1609
YEH == 1610
SAD == 1589
SEEN == 1587
DAGGER_ALIF == 1648
END_OF_AYAH == 1757

\* U+FE76 ARABIC FATHA ISOLATED FORM: general category Lo, compatibility
\* decomposition <isolated> 0020 064E
FATHA_ISOLATED_FORM == 65142

(***************************************************************************)
(* unicodedata and re character classes.                                   *)
(***************************************************************************)
\* unicodedata.category(c).startswith('L')
IsLetter(c) ==
    \/ c \in 65..90 \/ c \in 97..122
    \/ c \in 1568..1610 \/ c \in 1646..1647 \/ c \in 1649..1747
    \/ c = 1749 \/ c \in 1765..1766 \/ c \in 1774..1775
    \/ c \in 1786..1788 \/ c = 1791
    \/ c = FATHA_ISOLATED_FORM

\* unicodedata.category(c) == 'Mn'
IsMn(c) ==
    \/ c \in 1552..1562 \/ c \in 1611..1631 \/ c = 1648
    \/ c \in 1750..1756 \/ c \in 1759..1764 \/ c \in 1767..1768
    \/ c \in 1770..1773

\* re: \s (and the class [\s\u00A0]); also what str.strip() removes
IsSpace(c) == c \in 9..13 \/ c \in 28..32 \/ c = 133 \/ c = 160

\* re: [0-9\u0660-\u0669]
IsDigit(c) == c \in 48..57 \/ c \in 1632..1641

\* re: \w, as used by \b
IsWordChar(c) ==
    \/ c \in 48..57 \/ c \in 65..90 \/ c = 95 \/ c \in 97..122
    \/ c \in 1568..1610 \/ c \in 1632..1641 \/ c \in 1646..1647
    \/ c \in 1649..1747 \/ c = 1749 \/ c \in 1765..1766
    \/ c \in 1774..1788 \/ c = 1791
    \/ c = FATHA_ISOLATED_FORM

\* re: [\u0600-\u0605\u0610-\u061A\u06D6-\u06ED\u08F0-\u08FF]
IsQuranicSymbol(c) ==
    \/ c \in 1536..1541 \/ c \in 1552..1562 \/ c \in 1750..1773
    \/ c \in 2288..2303

\* unicodedata.combining(c): the canonical combining class
CombiningClass(c) ==
    CASE c \in 1552..1559 -> 230
      [] c \in 1560..1562 -> c - 1530
      [] c \in 1611..1618 -> c - 1584
      [] c \in {1619, 1620, 1623, 1624, 1625, 1626, 1627, 1629, 1630} -> 230
      [] c \in {1621, 1622, 1628, 1631} -> 220
      [] c = 1648 -> 35
      [] c \in 1750..1756 -> 230
      [] c \in {1759, 1760, 1761, 1762, 1764, 1767, 1768, 1771, 1772} -> 230
      [] c \in {1763, 1770, 1773} -> 220
      [] OTHER -> 0

\* The canonical decomposition mapping of one code point
CanonicalDecomposition(c) ==
    CASE c = 1570 -> <<1575, 1619>>
      [] c = 1571 -> <<1575, 1620>>
      [] c = 1572 -> <<1608, 1620>>
      [] c = 1573 -> <<1575, 1621>>
      [] c = 1574 -> <<1610, 1620>>
      [] c = 1728 -> <<1749, 1620>>
      [] c = 1730 -> <<1729, 1620>>
      [] c = 1747 -> <<1746, 1620>>
      [] OTHER -> <<c>>

\* The compatibility decomposition mapping of one code point
CompatibilityDecomposition(c) ==
    CASE c = 160 -> <<32>>
      [] c = 1653 -> <<1575, 1652>>
      [] c = 1654 -> <<1608, 1652>>
      [] c = 1655 -> <<1735, 1652>>
      [] c = 1656 -> <<1610, 1652>>
      [] c = FATHA_ISOLATED_FORM -> <<SPACE, FATHA>>
      [] OTHER -> CanonicalDecomposition(c)

\* The primary composite of a starter and a following mark (0: none)
PrimaryComposite(a, b) ==
    CASE a = 1575 /\ b = 1619 -> 1570
      [] a = 1575 /\ b = 1620 -> 1571
      [] a = 1608 /\ b = 1620 -> 1572
      [] a = 1575 /\ b = 1621 -> 1573
      [] a = 1610 /\ b = 1620 -> 1574
      [] a = 1749 /\ b = 1620 -> 1728
      [] a = 1729 /\ b = 1620 -> 1730
      [] a = 1746 /\ b = 1620 -> 1747
      [] OTHER -> 0

(***************************************************************************)
(* Sequence helpers (Python str and list operations).                      *)
(***************************************************************************)
\* s[i:] with a zero-based i
Drop(s, i) == IF i >= Len(s) THEN << >> ELSE SubSeq(s, i + 1, Len(s))

\* s[:i]
Take(s, i) == IF i >= Len(s) THEN s ELSE SubSeq(s, 1, i)

\* str.replace(a, b) for single characters
ReplaceChar(s, a, b) == [i \in 1..Len(s) |-> IF s[i] = a THEN b ELSE s[i]]

\* "".join(c for c in s if keep)
RECURSIVE Flatten(_)
Flatten(ss) == IF ss = << >> THEN << >> ELSE Head(ss) \o Flatten(Tail(ss))

\* str.strip()
RECURSIVE LStrip(_)
LStrip(s) == IF s # << >> /\ IsSpace(Head(s)) THEN LStrip(Tail(s)) ELSE s

RECURSIVE RStrip(_)
RStrip(s) ==
    IF s # << >> /\ IsSpace(s[Len(s)]) THEN RStrip(SubSeq(s, 1, Len(s) - 1)) ELSE s

Strip(s) == RStrip(LStrip(s))

\* re.sub(r'\s+', ' ', s) and re.sub(r'[\s\u00A0]+', ' ', s)
RECURSIVE CollapseSpaces(_)
CollapseSpaces(s) ==
    IF s = << >> THEN << >>
    ELSE IF IsSpace(Head(s))
         THEN <<SPACE>> \o CollapseSpaces(LStrip(s))
         ELSE <<Head(s)>> \o CollapseSpaces(Tail(s))

\* [token for token in re.split(r'[\s\u00A0]+', s) if token]
RECURSIVE SplitAcc(_, _, _)
SplitAcc(s, cur, acc) ==
    IF s = << >> THEN (IF cur = << >> THEN acc ELSE Append(acc, cur))
    ELSE IF IsSpace(Head(s))
         THEN SplitAcc(Tail(s), << >>, IF cur = << >> THEN acc ELSE Append(acc, cur))
         ELSE SplitAcc(Tail(s), Append(cur, Head(s)), acc)

SplitTokens(s) == SplitAcc(s, << >>, << >>)

\* " ".join(tokens)
RECURSIVE JoinTokens(_)
JoinTokens(ts) ==
    IF ts = << >> THEN << >>
    ELSE IF Len(ts) = 1 THEN ts[1]
    ELSE ts[1] \o <<SPACE>> \o JoinTokens(Tail(ts))

(***************************************************************************)
(* unicodedata.normalize                                                   *)
(***************************************************************************)
\* Canonical Ordering Algorithm: exchange adjacent marks while out of order
RECURSIVE CanonicalOrder(_)
CanonicalOrder(s) ==
    LET bad == {i \in 1..(Len(s) - 1) :
                   /\ CombiningClass(s[i + 1]) > 0
                   /\ CombiningClass(s[i]) > CombiningClass(s[i + 1])}
    IN  IF bad = {} THEN s
        ELSE LET i == CHOOSE j \in bad : \A k \in bad : j <= k
             IN  CanonicalOrder([k \in 1..Len(s) |->
                                   IF k = i THEN s[i + 1]
                                   ELSE IF k = i + 1 THEN s[i] ELSE s[k]])

\* unicodedata.normalize('NFD', s)
NFD(s) == CanonicalOrder(Flatten([i \in 1..Len(s) |-> CanonicalDecomposition(s[i])]))

\* unicodedata.normalize('NFKD', s)
NFKD(s) == CanonicalOrder(Flatten([i \in 1..Len(s) |-> CompatibilityDecomposition(s[i])]))

\* Canonical Composition Algorithm over a decomposed, ordered string:
\* out is the result so far, st the index in out of the last starter (0: none),
\* lastcc the combining class of the last character appended after it.
RECURSIVE ComposeAcc(_, _, _, _)
ComposeAcc(s, out, st, lastcc) ==
    IF s = << >> THEN out
    ELSE LET c  == Head(s)
             cc == CombiningClass(c)
             pc == IF st = 0 THEN 0 ELSE PrimaryComposite(out[st], c)
         IN  IF st # 0 /\ pc # 0 /\ (lastcc < cc \/ (lastcc = 0 /\ st = Len(out)))
             THEN ComposeAcc(Tail(s), [out EXCEPT ![st] = pc], st, lastcc)
             ELSE IF cc = 0
                  THEN ComposeAcc(Tail(s), Append(out, c), Len(out) + 1, 0)
                  ELSE ComposeAcc(Tail(s), Append(out, c), st, cc)

\* unicodedata.normalize('NFKC', s)
NFKC(s) == ComposeAcc(NFKD(s), << >>, 0, 0)

(***************************************************************************)
(* Normalization functions                                                 *)
(***************************************************************************)
BASMALA_EXACT_TEXT ==
    << 1576, 1587, 1605, 32, 1575, 1604, 1604, 1607, 32,
       1575, 1604, 1585, 1581, 1605, 1606, 32,
       1575, 1604, 1585, 1581, 1610, 1605 >>

SURAH_WORD_AR_RAW == << 1587, 1608, 1585, 1577 >>

\* The literal of line 230: alef, lam
AL_LITERAL == << 1575, 1604 >>

normalize_text_for_detection(text) ==
    IF text = << >> THEN << >>
    ELSE LET text_no_diacritics == SelectSeq(NFD(text), LAMBDA c : ~IsMn(c))
             a1 == ReplaceChar(text_no_diacritics, ALEF_HAMZA_ABOVE, ALEF)
             a2 == ReplaceChar(a1, ALEF_HAMZA_BELOW, ALEF)
             a3 == ReplaceChar(a2, ALEF_MADDA, ALEF)
             a4 == ReplaceChar(a3, ALEF_WASLA, ALEF)
             a5 == ReplaceChar(a4, TEH_MARBUTA, HEH)
             text_normalized_letters == ReplaceChar(a5, ALEF_MAKSURA, YEH)
             text_standard_space == CollapseSpaces(text_normalized_letters)
         IN  Strip(text_standard_space)

BASMALA_NORMALIZED_FOR_DETECTION == normalize_text_for_detection(BASMALA_EXACT_TEXT)

\* BASMALA_NORMALIZED_FOR_DETECTION.split(' ') without its empty tokens: the
\* normalized text holds single U+0020 separators only
BASMALA_TOKENS_NORMALIZED_FOR_DETECTION == SplitTokens(BASMALA_NORMALIZED_FOR_DETECTION)

SURAH_WORD_NORMALIZED_FOR_DETECTION == normalize_text_for_detection(SURAH_WORD_AR_RAW)

\* re.sub(r"\u06DD\s*[\u0660-\u06690-9]*\s*", "", s)
RECURSIVE SkipDigits(_)
SkipDigits(s) == IF s # << >> /\ IsDigit(Head(s)) THEN SkipDigits(Tail(s)) ELSE s

RECURSIVE RemoveAyahMarkers(_)
RemoveAyahMarkers(s) ==
    IF s = << >> THEN << >>
    ELSE IF Head(s) = END_OF_AYAH
         THEN RemoveAyahMarkers(LStrip(SkipDigits(LStrip(Tail(s)))))
         ELSE <<Head(s)>> \o RemoveAyahMarkers(Tail(s))

\* re.sub(r"\b[0-9\u0660-\u0669]+\b", "", s): a digit run is removed when a
\* non-word character (or an end of the text) stands on both sides of it;
\* prev is the character before Head(s) in the text (0 at its start)
RECURSIVE RemoveStandaloneDigitsFrom(_, _)
RemoveStandaloneDigitsFrom(s, prev) ==
    IF s = << >> THEN << >>
    ELSE IF IsDigit(Head(s)) /\ (prev = 0 \/ ~IsWordChar(prev))
         THEN LET rest == SkipDigits(s)
                  run  == SubSeq(s, 1, Len(s) - Len(rest))
              IN  IF rest = << >> \/ ~IsWordChar(Head(rest))
                  THEN RemoveStandaloneDigitsFrom(rest, run[Len(run)])
                  ELSE run \o RemoveStandaloneDigitsFrom(rest, run[Len(run)])
         ELSE <<Head(s)>> \o RemoveStandaloneDigitsFrom(Tail(s), Head(s))

RemoveStandaloneDigits(s) == RemoveStandaloneDigitsFrom(s, 0)

\* The content normalization with the spaces consolidated before the removals
normalize_arabic_text_for_comparison_content_SpacesFirst(text) ==
    IF text = << >> THEN << >>
    ELSE LET n0 == Strip(CollapseSpaces(text))
             n1 == SelectSeq(n0, LAMBDA c : ~IsQuranicSymbol(c))
             n2 == RemoveAyahMarkers(n1)
             n3 == RemoveStandaloneDigits(n2)
             n4 == SelectSeq(n3, LAMBDA c : ~IsDigit(c))
         IN  ReplaceChar(n4, DAGGER_ALIF, ALEF)

normalize_arabic_text_for_comparison_content(text) ==
    IF text = << >> THEN << >>
    ELSE LET n1 == SelectSeq(text, LAMBDA c : ~IsQuranicSymbol(c))
             n2 == RemoveAyahMarkers(n1)
             n3 == RemoveStandaloneDigits(n2)
             n4 == SelectSeq(n3, LAMBDA c : ~IsDigit(c))
             normalized_text == ReplaceChar(n4, DAGGER_ALIF, ALEF)
         IN  Strip(CollapseSpaces(normalized_text))

(***************************************************************************)
(* Letter / diacritic extraction and word matching                         *)
(***************************************************************************)
\* The loop of lines 90-98 over the decomposed word: idx is
\* current_letter_idx, acc is harakat_tuples
RECURSIVE HarakatAcc(_, _, _)
HarakatAcc(s, idx, acc) ==
    IF s = << >> THEN acc
    ELSE IF IsLetter(Head(s)) THEN HarakatAcc(Tail(s), idx + 1, acc)
    ELSE IF Head(s) \in RELEVANT_HARAKAT /\ idx # -1
         THEN HarakatAcc(Tail(s), idx, Append(acc, <<idx, Head(s)>>))
         ELSE HarakatAcc(Tail(s), idx, acc)

get_letters_and_harakat(word_normalized_for_content, apply_phonetic_normalization) ==
    LET clean_word_for_letters == NFKC(word_normalized_for_content)
        letter_only_string == SelectSeq(NFD(clean_word_for_letters), IsLetter)
        p1 == ReplaceChar(letter_only_string, ALEF_WASLA, ALEF)
        p2 == ReplaceChar(p1, ALEF_HAMZA_ABOVE, ALEF)
        p3 == ReplaceChar(p2, ALEF_HAMZA_BELOW, ALEF)
        p4 == ReplaceChar(p3, ALEF_MADDA, ALEF)
        p5 == ReplaceChar(p4, SAD, SEEN)
        p6 == ReplaceChar(p5, ALEF_MAKSURA, YEH)
        p7 == ReplaceChar(p6, TEH_MARBUTA, HEH)
    IN  [ letters |-> IF apply_phonetic_normalization THEN p7 ELSE letter_only_string,
          harakat |-> HarakatAcc(NFD(word_normalized_for_content), -1, << >>) ]

Min3(a, b, c) == IF a <= b /\ a <= c THEN a ELSE IF b <= c THEN b ELSE c

\* LevLoop with a substitution that costs 2
RECURSIVE LevLoop_SubstitutionCostsTwo(_, _, _, _, _)
LevLoop_SubstitutionCostsTwo(s1, s2, i, previous_row, current_row) ==
    IF Len(current_row) = Len(s2) + 1
    THEN IF i + 1 = Len(s1) THEN current_row
         ELSE LevLoop_SubstitutionCostsTwo(s1, s2, i + 1, current_row, <<i + 2>>)
    ELSE LET j  == Len(current_row) - 1
             c1 == s1[i + 1]
             c2 == s2[j + 1]
             insertions    == previous_row[j + 2] + 1
             deletions     == current_row[j + 1] + 1
             substitutions == previous_row[j + 1] + (IF c1 # c2 THEN 2 ELSE 0)
         IN  LevLoop_SubstitutionCostsTwo(s1, s2, i, previous_row,
                     Append(current_row, Min3(insertions, deletions, substitutions)))

\* The loops of lines 107-113 as one recursion.  i and c1 are the outer
\* loop's enumerate(s1); the inner loop's j is the number of entries appended
\* to current_row so far.  Rows are read at Python index j as [j + 1].
RECURSIVE LevLoop(_, _, _, _, _)
LevLoop(s1, s2, i, previous_row, current_row) ==
    IF Len(current_row) = Len(s2) + 1
    THEN IF i + 1 = Len(s1) THEN current_row
         ELSE LevLoop(s1, s2, i + 1, current_row, <<i + 2>>)
    ELSE LET j  == Len(current_row) - 1
             c1 == s1[i + 1]
             c2 == s2[j + 1]
             insertions    == previous_row[j + 2] + 1
             deletions     == current_row[j + 1] + 1
             substitutions == previous_row[j + 1] + (IF c1 # c2 THEN 1 ELSE 0)
         IN  LevLoop(s1, s2, i, previous_row,
                     Append(current_row, Min3(insertions, deletions, substitutions)))

RECURSIVE levenshtein_distance(_, _)
levenshtein_distance(s1, s2) ==
    IF Len(s1) < Len(s2) THEN levenshtein_distance(s2, s1)
    ELSE IF Len(s2) = 0 THEN Len(s1)
    ELSE LET last_row == LevLoop(s1, s2, 0, [j \in 1..(Len(s2) + 1) |-> j - 1], <<1>>)
         IN  last_row[Len(last_row)]

\* The default thresholds of check_word_match, in hundredths
LETTER_THRESHOLD == 85
TASHKEEL_THRESHOLD == 70

Max2(a, b) == IF a >= b THEN a ELSE b

\* check_word_match that returns a match as soon as one letters string is empty
check_word_match_EmptyIsMatch(ayah_word_normalized_for_content, user_word_normalized_for_content, letter_threshold, tashkeel_threshold) ==
    LET ayah == get_letters_and_harakat(ayah_word_normalized_for_content, TRUE)
        user == get_letters_and_harakat(user_word_normalized_for_content, TRUE)
        dist == levenshtein_distance(ayah.letters, user.letters)
        max_len == Max2(Len(ayah.letters), Len(user.letters))
        set_user_harakat == {user.harakat[i] : i \in 1..Len(user.harakat)}
        correct_tashkeel_count ==
            Cardinality({i \in 1..Len(ayah.harakat) : ayah.harakat[i] \in set_user_harakat})
    IN  IF ayah.letters = << >> \/ user.letters = << >> THEN TRUE
        ELSE IF (max_len - dist) * 100 < letter_threshold * max_len THEN FALSE
        ELSE IF ayah.harakat = << >> THEN TRUE
        ELSE correct_tashkeel_count * 100 >= tashkeel_threshold * Len(ayah.harakat)

\* check_word_match that counts the candidate's diacritics too: the correct
\* pairs are divided by the larger of the two diacritic counts
check_word_match_Symmetric(ayah_word_normalized_for_content, user_word_normalized_for_content, letter_threshold, tashkeel_threshold) ==
    LET ayah == get_letters_and_harakat(ayah_word_normalized_for_content, TRUE)
        user == get_letters_and_harakat(user_word_normalized_for_content, TRUE)
        dist == levenshtein_distance(ayah.letters, user.letters)
        max_len == Max2(Len(ayah.letters), Len(user.letters))
        set_user_harakat == {user.harakat[i] : i \in 1..Len(user.harakat)}
        correct_tashkeel_count ==
            Cardinality({i \in 1..Len(ayah.harakat) : ayah.harakat[i] \in set_user_harakat})
        most_harakat == Max2(Len(ayah.harakat), Len(user.harakat))
    IN  IF ayah.letters = << >> /\ user.letters = << >> THEN TRUE
        ELSE IF ayah.letters = << >> \/ user.letters = << >> THEN FALSE
        ELSE IF (max_len - dist) * 100 < letter_threshold * max_len THEN FALSE
        ELSE IF most_harakat = 0 THEN TRUE
        ELSE correct_tashkeel_count * 100 >= tashkeel_threshold * most_harakat

\* check_word_match that returns a match, without the letter test, when the
\* candidate carries every diacritic of a reference that has some
check_word_match_DiacriticsRescue(ayah_word_normalized_for_content, user_word_normalized_for_content, letter_threshold, tashkeel_threshold) ==
    LET ayah == get_letters_and_harakat(ayah_word_normalized_for_content, TRUE)
        user == get_letters_and_harakat(user_word_normalized_for_content, TRUE)
        dist == levenshtein_distance(ayah.letters, user.letters)
        max_len == Max2(Len(ayah.letters), Len(user.letters))
        set_user_harakat == {user.harakat[i] : i \in 1..Len(user.harakat)}
        correct_tashkeel_count ==
            Cardinality({i \in 1..Len(ayah.harakat) : ayah.harakat[i] \in set_user_harakat})
    IN  IF ayah.letters = << >> /\ user.letters = << >> THEN TRUE
        ELSE IF ayah.letters = << >> \/ user.letters = << >> THEN FALSE
        ELSE IF ayah.harakat # << >> /\ correct_tashkeel_count = Len(ayah.harakat) THEN TRUE
        ELSE IF (max_len - dist) * 100 < letter_threshold * max_len THEN FALSE
        ELSE IF ayah.harakat = << >> THEN TRUE
        ELSE correct_tashkeel_count * 100 >= tashkeel_threshold * Len(ayah.harakat)

\* check_word_match without its diacritic test (lines 132-141)
check_word_match_LettersOnly(ayah_word_normalized_for_content, user_word_normalized_for_content, letter_threshold, tashkeel_threshold) ==
    LET ayah_letters_compare == get_letters_and_harakat(ayah_word_normalized_for_content, TRUE).letters
        user_letters_compare == get_letters_and_harakat(user_word_normalized_for_content, TRUE).letters
        dist == levenshtein_distance(ayah_letters_compare, user_letters_compare)
        max_len == Max2(Len(ayah_letters_compare), Len(user_letters_compare))
    IN  IF ayah_letters_compare = << >> /\ user_letters_compare = << >> THEN TRUE
        ELSE IF ayah_letters_compare = << >> \/ user_letters_compare = << >> THEN FALSE
        ELSE (max_len - dist) * 100 >= letter_threshold * max_len

\* check_word_match without its letter-similarity test (lines 125-130)
check_word_match_HarakatOnly(ayah_word_normalized_for_content, user_word_normalized_for_content, letter_threshold, tashkeel_threshold) ==
    LET ayah == get_letters_and_harakat(ayah_word_normalized_for_content, TRUE)
        user == get_letters_and_harakat(user_word_normalized_for_content, TRUE)
        ayah_harakat == ayah.harakat
        set_user_harakat == {user.harakat[i] : i \in 1..Len(user.harakat)}
        correct_tashkeel_count ==
            Cardinality({i \in 1..Len(ayah_harakat) : ayah_harakat[i] \in set_user_harakat})
    IN  IF ayah.letters = << >> /\ user.letters = << >> THEN TRUE
        ELSE IF ayah.letters = << >> \/ user.letters = << >> THEN FALSE
        ELSE IF ayah_harakat = << >> THEN TRUE
        ELSE correct_tashkeel_count * 100 >= tashkeel_threshold * Len(ayah_harakat)

\* Thresholds are hundredths; the float comparisons of the source are made on
\* the exact fractions (for lengths this small the float quotient and the
\* float threshold compare as the fractions do).
check_word_match_at(ayah_word_normalized_for_content, user_word_normalized_for_content, letter_threshold, tashkeel_threshold) ==
    LET ayah == get_letters_and_harakat(ayah_word_normalized_for_content, TRUE)
        user == get_letters_and_harakat(user_word_normalized_for_content, TRUE)
        ayah_letters_compare == ayah.letters
        user_letters_compare == user.letters
        ayah_harakat == ayah.harakat
        dist == levenshtein_distance(ayah_letters_compare, user_letters_compare)
        max_len == Max2(Len(ayah_letters_compare), Len(user_letters_compare))
        set_user_harakat == {user.harakat[i] : i \in 1..Len(user.harakat)}
        correct_tashkeel_count ==
            Cardinality({i \in 1..Len(ayah_harakat) : ayah_harakat[i] \in set_user_harakat})
    IN  IF ayah_letters_compare = << >> /\ user_letters_compare = << >> THEN TRUE
        ELSE IF ayah_letters_compare = << >> \/ user_letters_compare = << >> THEN FALSE
        ELSE IF (max_len - dist) * 100 < letter_threshold * max_len THEN FALSE
        ELSE IF ayah_harakat = << >> THEN TRUE
        ELSE correct_tashkeel_count * 100 >= tashkeel_threshold * Len(ayah_harakat)

check_word_match(ayah_word_normalized_for_content, user_word_normalized_for_content) ==
    check_word_match_at(ayah_word_normalized_for_content, user_word_normalized_for_content,
                        LETTER_THRESHOLD, TASHKEEL_THRESHOLD)

(***************************************************************************)
(* Prefix stripping                                                        *)
(***************************************************************************)
_strip_prefix_from_raw_text(raw_text, prefix_tokens_normalized_for_detection, num_prefix_raw_words_expected) ==
    IF raw_text = << >> \/ prefix_tokens_normalized_for_detection = << >> THEN raw_text
    ELSE LET raw_text_tokens == SplitTokens(raw_text)
             first_n_raw_tokens_normalized ==
                 [i \in 1..num_prefix_raw_words_expected |->
                     normalize_text_for_detection(raw_text_tokens[i])]
         IN  IF Len(raw_text_tokens) < num_prefix_raw_words_expected THEN raw_text
             ELSE IF first_n_raw_tokens_normalized = prefix_tokens_normalized_for_detection
                  THEN Strip(JoinTokens(Drop(raw_text_tokens, num_prefix_raw_words_expected)))
                  ELSE raw_text

(***************************************************************************)
(* Request inputs: the form field ayah_text_input and the ASR output.      *)
(* Words are written as code points.                                       *)
(***************************************************************************)
W_BISM == << 1576, 1587, 1605 >>
W_ALLAH == << 1575, 1604, 1604, 1607 >>
W_ALRAHMAN == << 1575, 1604, 1585, 1581, 1605, 1606 >>
W_ALRAHEEM == << 1575, 1604, 1585, 1581, 1610, 1605 >>
\* The invocation with its diacritics (bi-smi llahi r-rahmani r-rahimi)
W_BISMI_D == << 1576, 1616, 1587, 1618, 1605, 1616 >>
W_ALLAHI_D == << 1575, 1604, 1604, 1614, 1617, 1607, 1616 >>
W_ALRAHMANI_D == << 1575, 1604, 1585, 1614, 1617, 1581, 1618, 1605, 1614, 1648, 1606, 1616 >>
W_ALRAHEEMI_D == << 1575, 1604, 1585, 1614, 1617, 1581, 1616, 1610, 1605, 1616 >>
W_SURAH == << 1587, 1608, 1585, 1577 >>
W_ALFALAQ == << 1575, 1604, 1601, 1604, 1602 >>
W_AL == << 1575, 1604 >>
W_IMRAN == << 1593, 1605, 1585, 1575, 1606 >>
\* aal, written with alef madda
W_AAL == << 1570, 1604 >>
\* qul with and without its diacritics, huwa, allahu, ahadun / ahad, samad
W_QUL_D == << 1602, 1615, 1604, 1618 >>
W_QUL == << 1602, 1604 >>
W_HUWA_D == << 1607, 1615, 1608, 1614 >>
W_HUWA == << 1607, 1608 >>
W_ALLAHU_D == << 1575, 1604, 1604, 1614, 1617, 1607, 1615 >>
W_AHAD_D == << 1571, 1614, 1581, 1614, 1583, 1612 >>
W_AHAD == << 1575, 1581, 1583 >>
W_SAMAD == << 1589, 1605, 1583 >>
W_SAMAD_D == << 1589, 1614, 1605, 1614, 1583, 1612 >>
\* An end-of-ayah sign with the verse number 1: its content normalization is empty
W_AKBAR == << 1575, 1603, 1576, 1585 >>
W_AYAH_END == << 1757, 1633 >>
\* wa-rasulihi with its five relevant diacritics, and without the last one
W_RASULIHI_D == << 1608, 1614, 1585, 1614, 1587, 1615, 1608, 1604, 1616, 1607, 1616 >>
W_RASULIHI_NEAR == << 1608, 1614, 1585, 1614, 1587, 1615, 1608, 1604, 1616, 1607 >>

BASMALA_PLAIN == << W_BISM, W_ALLAH, W_ALRAHMAN, W_ALRAHEEM >>
BASMALA_DIACRITIZED == << W_BISMI_D, W_ALLAHI_D, W_ALRAHMANI_D, W_ALRAHEEMI_D >>
BASMALA_IMPERFECT == << W_BISM, W_ALLAH, W_ALRAHEEM >>

\* Bounds on the generated inputs: verse words after the prefix
MaxAyahWords == 2
MaxTranscriptWords == 2

\* All sequences over S of length at most n
SeqUpTo(S, n) == UNION {[1..k -> S] : k \in 0..n}

AyahPrefixes ==
    { << >>, << W_SURAH, W_ALFALAQ >>, << W_SURAH, W_AL, W_IMRAN >>,
      BASMALA_PLAIN, BASMALA_DIACRITIZED, << W_SURAH, W_ALFALAQ >> \o BASMALA_PLAIN }

AyahVocabulary == { W_QUL_D, W_QUL, W_AYAH_END }

TranscriptPrefixes == { << >>, BASMALA_PLAIN, BASMALA_IMPERFECT, << W_SURAH, W_ALFALAQ >> }

TranscriptVocabulary == { W_QUL_D, W_HUWA }

\* Fixed request texts: the scenarios of the recitation tests and
\* whitespace-only, double-space and no-break-space texts
SCENARIO_AYAH == JoinTokens(<< W_QUL_D, W_HUWA_D, W_ALLAHU_D, W_AHAD_D >>)
SCENARIO_AYAH_WITH_BASMALA == JoinTokens(BASMALA_DIACRITIZED) \o <<SPACE>> \o SCENARIO_AYAH
TRANSCRIPT_PLAIN_AHAD == JoinTokens(<< W_QUL, W_HUWA, W_ALLAH, W_AHAD >>)
TRANSCRIPT_PLAIN_SAMAD == JoinTokens(<< W_QUL, W_HUWA, W_ALLAH, W_SAMAD >>)
TRANSCRIPT_DIACRITIZED_SAMAD == JoinTokens(<< W_QUL_D, W_HUWA_D, W_ALLAHU_D, W_SAMAD_D >>)
REPEATED_WORD_AYAH == W_ALLAH
REPEATED_WORD_TRANSCRIPT == JoinTokens(<< W_ALLAH, W_ALLAH, W_AKBAR >>)
NEAR_THEN_EXACT_AYAH == W_RASULIHI_D
\* Headers with nothing after them, and a two-token chapter name before a verse
HEADER_WORD_ONLY == W_SURAH
HEADER_WORD_AND_ARTICLE == JoinTokens(<< W_SURAH, W_AAL >>)
HEADER_AAL_IMRAN_AYAH == JoinTokens(<< W_SURAH, W_AAL, W_IMRAN, W_QUL_D >>)
NEAR_THEN_EXACT_TRANSCRIPT == JoinTokens(<< W_HUWA, W_RASULIHI_NEAR, W_RASULIHI_D >>)
WHITESPACE_ONLY == << 32, 160, 10 >>
NBSP_SEPARATED == W_SURAH \o <<160>> \o W_ALFALAQ \o <<32, 32>> \o W_QUL \o <<10>>

AyahTextInputs ==
    { JoinTokens(p \o b) : p \in AyahPrefixes, b \in SeqUpTo(AyahVocabulary, MaxAyahWords) }
    \cup { SCENARIO_AYAH, SCENARIO_AYAH_WITH_BASMALA, REPEATED_WORD_AYAH, WHITESPACE_ONLY,
           NBSP_SEPARATED, NEAR_THEN_EXACT_AYAH, HEADER_WORD_ONLY,
           HEADER_WORD_AND_ARTICLE, HEADER_AAL_IMRAN_AYAH }

\* What the ASR model may return for a request: a generated transcript, a
\* scenario transcript, or the reference text itself
Transcriptions(ayah) ==
    { JoinTokens(p \o b) :
          p \in TranscriptPrefixes, b \in SeqUpTo(TranscriptVocabulary, MaxTranscriptWords) }
    \cup { TRANSCRIPT_PLAIN_AHAD, TRANSCRIPT_PLAIN_SAMAD, TRANSCRIPT_DIACRITIZED_SAMAD,
           REPEATED_WORD_TRANSCRIPT, NEAR_THEN_EXACT_TRANSCRIPT, SCENARIO_AYAH, ayah }

(***************************************************************************)
(* The request handler transcribe_and_compare_audio                        *)
(***************************************************************************)
VARIABLES
    pc,                                       \* the handler's position
    ayah_text_input,
    original_transcription,
    processed_ayah_text_for_comparison,
    processed_transcription_for_comparison,
    is_al_fatiha_basmala_case,
    ayah_words_for_comparison_info_list,
    transcribed_tokens_for_comparison_normalized,
    incorrect_ayah_word_details,
    user_word_idx,
    ayah_info_idx,                            \* index of the for loop of line 293
    found_match_for_current_ayah_word,
    temp_user_idx_search,
    current_matched_user_word_letters,
    match_positions,                          \* instrumentation: transcript index of each match
    response,
    direct_call,                              \* a function of the module called on its own
    frames,                                   \* the frames of the handler's concurrent calls
    module_globals,                           \* the module-level names the handler reads
    audio,                                    \* the local names of lines 193-211
    temp_dir,                                 \* the files of the temporary directory
    error_table,                              \* crud.py: the rows of one user's frequent errors
    crud_call                                 \* crud.py: the last call and the table before it

vars == << pc, ayah_text_input, original_transcription,
           processed_ayah_text_for_comparison, processed_transcription_for_comparison,
           is_al_fatiha_basmala_case, ayah_words_for_comparison_info_list,
           transcribed_tokens_for_comparison_normalized, incorrect_ayah_word_details,
           user_word_idx, ayah_info_idx, found_match_for_current_ayah_word,
           temp_user_idx_search, current_matched_user_word_letters, match_positions,
           response, direct_call, frames, module_globals, audio, temp_dir,
           error_table, crud_call >>

text_vars == << ayah_text_input, original_transcription,
                processed_ayah_text_for_comparison, processed_transcription_for_comparison,
                is_al_fatiha_basmala_case >>

token_vars == << ayah_words_for_comparison_info_list,
                 transcribed_tokens_for_comparison_normalized >>

loop_vars == << incorrect_ayah_word_details, user_word_idx, ayah_info_idx,
                found_match_for_current_ayah_word, temp_user_idx_search,
                current_matched_user_word_letters, match_positions >>

NoResponse == [ status |-> 0 ]

\* No function is called outside the handler
NoCall == [ function |-> "none" ]

\* The variables of the handler
handler_vars == << pc, text_vars, token_vars, loop_vars, response >>

\* The concurrent calls of the handler, each in its own coroutine
Calls == { 1, 2 }

\* The variables of the concurrent calls
concurrent_vars == << frames, module_globals >>

\* Lines 51-53: the module-level names of the invocation pattern, bound when
\* the module is imported
ModuleGlobalsAtImport ==
    [ BASMALA_NORMALIZED_FOR_DETECTION |-> BASMALA_NORMALIZED_FOR_DETECTION,
      BASMALA_TOKENS_NORMALIZED_FOR_DETECTION |-> BASMALA_TOKENS_NORMALIZED_FOR_DETECTION ]

\* A call that has not been made
NoFrame == [ pc |-> "idle" ]

\* No concurrent call has been made and the module has been imported
NoConcurrentCalls ==
    /\ frames = [ c \in Calls |-> NoFrame ]
    /\ module_globals = ModuleGlobalsAtImport

\* The variables of the audio stage
audio_vars == << audio, temp_dir >>

\* Line 195: tmp_audio_file_path = None (0: None; a file is named by a
\* positive number). requests counts the requests received, failed_at names
\* the statement that raised.
AudioIdle ==
    [ pc |-> "idle", tmp_file_name |-> 0, tmp_audio_file_path |-> 0,
      failed_at |-> "none", status |-> 0, requests |-> 0 ]

\* No audio has been received and the temporary directory is empty
NoAudioStage ==
    /\ audio = AudioIdle
    /\ temp_dir = { }

\* The variables of crud.py
crud_vars == << error_table, crud_call >>

\* The table of frequent errors is empty (a function from the ayah_id of
\* each stored row to its error_count) and no function of crud.py has been
\* called
NoCrudCall ==
    /\ error_table = << >>
    /\ crud_call = [ function |-> "none" ]

\* No request is being handled
HandlerIdle ==
    /\ pc = "idle"
    /\ ayah_text_input = << >>
    /\ original_transcription = << >>
    /\ processed_ayah_text_for_comparison = << >>
    /\ processed_transcription_for_comparison = << >>
    /\ is_al_fatiha_basmala_case = FALSE
    /\ ayah_words_for_comparison_info_list = << >>
    /\ transcribed_tokens_for_comparison_normalized = << >>
    /\ incorrect_ayah_word_details = << >>
    /\ user_word_idx = 0
    /\ ayah_info_idx = 0
    /\ found_match_for_current_ayah_word = FALSE
    /\ temp_user_idx_search = 0
    /\ current_matched_user_word_letters = << >>
    /\ match_positions = << >>
    /\ response = NoResponse

Init ==
    /\ HandlerIdle
    /\ direct_call = NoCall
    /\ NoConcurrentCalls
    /\ NoAudioStage
    /\ NoCrudCall

\* A request arrives with its form field (line 191)
ReceiveRequest ==
    /\ pc = "idle"
    /\ \E ayah \in AyahTextInputs : ayah_text_input' = ayah
    /\ pc' = "transcribe"
    /\ UNCHANGED << original_transcription, processed_ayah_text_for_comparison,
                    processed_transcription_for_comparison, is_al_fatiha_basmala_case,
                    token_vars, loop_vars, response >>
    /\ UNCHANGED << direct_call, concurrent_vars, audio_vars, crud_vars >>

\* Lines 195-217: the ASR model returns a transcription; both working copies
\* are set
Transcribe ==
    /\ pc = "transcribe"
    /\ \E t \in Transcriptions(ayah_text_input) :
          /\ original_transcription' = t
          /\ processed_transcription_for_comparison' = t
    /\ processed_ayah_text_for_comparison' = ayah_text_input
    /\ pc' = "surah_header"
    /\ UNCHANGED << ayah_text_input, is_al_fatiha_basmala_case, token_vars, loop_vars,
                    response >>
    /\ UNCHANGED << direct_call, concurrent_vars, audio_vars, crud_vars >>

\* num_header_words_to_strip that never takes a second chapter-name token
num_header_words_to_strip_OneNameToken(raw_ayah_tokens_before_header_strip) ==
    IF Len(raw_ayah_tokens_before_header_strip) > 1 THEN 2 ELSE 1

\* Lines 224-231: the number of header tokens to strip
num_header_words_to_strip(raw_ayah_tokens_before_header_strip) ==
    IF Len(raw_ayah_tokens_before_header_strip) > 1
    THEN IF /\ Len(raw_ayah_tokens_before_header_strip) > 2
            /\ normalize_text_for_detection(raw_ayah_tokens_before_header_strip[2])
                  = normalize_text_for_detection(AL_LITERAL)
         THEN 3
         ELSE 2
    ELSE 1

\* Lines 219-237: the reference text after Surah header removal
SurahHeaderRemoved(text) ==
    LET raw_ayah_tokens_before_header_strip == SplitTokens(text)
        n == num_header_words_to_strip(raw_ayah_tokens_before_header_strip)
    IN  IF raw_ayah_tokens_before_header_strip = << >> THEN text
        ELSE IF normalize_text_for_detection(raw_ayah_tokens_before_header_strip[1])
                   # SURAH_WORD_NORMALIZED_FOR_DETECTION
             THEN text
        ELSE IF Len(raw_ayah_tokens_before_header_strip) >= n
             THEN Strip(JoinTokens(Drop(raw_ayah_tokens_before_header_strip, n)))
             ELSE << >>

\* SurahHeaderRemoval searching the transcription for the header as well
SurahHeaderRemoval_BothTexts ==
    /\ pc = "surah_header"
    /\ processed_ayah_text_for_comparison' =
          SurahHeaderRemoved(processed_ayah_text_for_comparison)
    /\ processed_transcription_for_comparison' =
          SurahHeaderRemoved(processed_transcription_for_comparison)
    /\ pc' = "fatiha_check"
    /\ UNCHANGED << ayah_text_input, original_transcription, is_al_fatiha_basmala_case,
                    token_vars, loop_vars, response >>
    /\ UNCHANGED << direct_call, concurrent_vars, audio_vars, crud_vars >>

\* 1. Surah Header Removal (from Ayah text)
SurahHeaderRemoval ==
    /\ pc = "surah_header"
    /\ processed_ayah_text_for_comparison' =
          SurahHeaderRemoved(processed_ayah_text_for_comparison)
    /\ pc' = "fatiha_check"
    /\ UNCHANGED << ayah_text_input, original_transcription,
                    processed_transcription_for_comparison, is_al_fatiha_basmala_case,
                    token_vars, loop_vars, response >>
    /\ UNCHANGED << direct_call, concurrent_vars, audio_vars, crud_vars >>

\* AlFatihaCheck returning at once, with nothing reported, in the Al-Fatiha case
AlFatihaCheck_ShortCircuit ==
    /\ pc = "fatiha_check"
    /\ is_al_fatiha_basmala_case' =
          (normalize_text_for_detection(processed_ayah_text_for_comparison)
              = BASMALA_NORMALIZED_FOR_DETECTION)
    /\ pc' = IF is_al_fatiha_basmala_case' THEN "return" ELSE "basmala_strip"
    /\ UNCHANGED << ayah_text_input, original_transcription,
                    processed_ayah_text_for_comparison,
                    processed_transcription_for_comparison, token_vars, loop_vars,
                    response >>
    /\ UNCHANGED << direct_call, concurrent_vars, audio_vars, crud_vars >>

\* 2. Al-Fatiha Basmala Case Check
AlFatihaCheck ==
    /\ pc = "fatiha_check"
    /\ is_al_fatiha_basmala_case' =
          (normalize_text_for_detection(processed_ayah_text_for_comparison)
              = BASMALA_NORMALIZED_FOR_DETECTION)
    /\ pc' = "basmala_strip"
    /\ UNCHANGED << ayah_text_input, original_transcription,
                    processed_ayah_text_for_comparison,
                    processed_transcription_for_comparison, token_vars, loop_vars,
                    response >>
    /\ UNCHANGED << direct_call, concurrent_vars, audio_vars, crud_vars >>

\* BasmalaStripping without the Al-Fatiha exemption
BasmalaStripping_NoExemption ==
    /\ pc = "basmala_strip"
    /\ processed_ayah_text_for_comparison' =
          _strip_prefix_from_raw_text(processed_ayah_text_for_comparison,
              BASMALA_TOKENS_NORMALIZED_FOR_DETECTION,
              Len(BASMALA_TOKENS_NORMALIZED_FOR_DETECTION))
    /\ processed_transcription_for_comparison' =
          _strip_prefix_from_raw_text(processed_transcription_for_comparison,
              BASMALA_TOKENS_NORMALIZED_FOR_DETECTION,
              Len(BASMALA_TOKENS_NORMALIZED_FOR_DETECTION))
    /\ pc' = "prepare_tokens"
    /\ UNCHANGED << ayah_text_input, original_transcription, is_al_fatiha_basmala_case,
                    token_vars, loop_vars, response >>
    /\ UNCHANGED << direct_call, concurrent_vars, audio_vars, crud_vars >>

\* BasmalaStripping that strips the transcription only when the Ayah text was
\* stripped
BasmalaStripping_Coupled ==
    /\ pc = "basmala_strip"
    /\ LET num_basmala_raw_words_expected == Len(BASMALA_TOKENS_NORMALIZED_FOR_DETECTION)
           stripped_ayah ==
               _strip_prefix_from_raw_text(processed_ayah_text_for_comparison,
                   BASMALA_TOKENS_NORMALIZED_FOR_DETECTION, num_basmala_raw_words_expected)
           stripped_transcription ==
               _strip_prefix_from_raw_text(processed_transcription_for_comparison,
                   BASMALA_TOKENS_NORMALIZED_FOR_DETECTION, num_basmala_raw_words_expected)
       IN  IF ~is_al_fatiha_basmala_case
           THEN /\ processed_ayah_text_for_comparison' = stripped_ayah
                /\ processed_transcription_for_comparison' =
                      IF stripped_ayah # processed_ayah_text_for_comparison
                      THEN stripped_transcription
                      ELSE processed_transcription_for_comparison
           ELSE UNCHANGED << processed_ayah_text_for_comparison,
                             processed_transcription_for_comparison >>
    /\ pc' = "prepare_tokens"
    /\ UNCHANGED << ayah_text_input, original_transcription, is_al_fatiha_basmala_case,
                    token_vars, loop_vars, response >>
    /\ UNCHANGED << direct_call, concurrent_vars, audio_vars, crud_vars >>

\* 3. If NOT Al-Fatiha case, strip the Basmala from both texts
BasmalaStripping ==
    /\ pc = "basmala_strip"
    /\ LET num_basmala_raw_words_expected == Len(BASMALA_TOKENS_NORMALIZED_FOR_DETECTION)
           stripped_ayah ==
               _strip_prefix_from_raw_text(processed_ayah_text_for_comparison,
                   BASMALA_TOKENS_NORMALIZED_FOR_DETECTION, num_basmala_raw_words_expected)
           stripped_transcription ==
               _strip_prefix_from_raw_text(processed_transcription_for_comparison,
                   BASMALA_TOKENS_NORMALIZED_FOR_DETECTION, num_basmala_raw_words_expected)
       IN  IF ~is_al_fatiha_basmala_case
           THEN /\ processed_ayah_text_for_comparison' = stripped_ayah
                /\ processed_transcription_for_comparison' = stripped_transcription
           ELSE UNCHANGED << processed_ayah_text_for_comparison,
                             processed_transcription_for_comparison >>
    /\ pc' = "prepare_tokens"
    /\ UNCHANGED << ayah_text_input, original_transcription, is_al_fatiha_basmala_case,
                    token_vars, loop_vars, response >>
    /\ UNCHANGED << direct_call, concurrent_vars, audio_vars, crud_vars >>

\* Lines 269-279: the reference words kept for the loop, each with its index
\* among the raw tokens
RECURSIVE AyahInfoAcc(_, _, _)
AyahInfoAcc(final_ayah_tokens_raw_for_loop, idx, acc) ==
    IF idx = Len(final_ayah_tokens_raw_for_loop) THEN acc
    ELSE LET raw_token == final_ayah_tokens_raw_for_loop[idx + 1]
             normalized_token_for_content ==
                 normalize_arabic_text_for_comparison_content(raw_token)
         IN  AyahInfoAcc(final_ayah_tokens_raw_for_loop, idx + 1,
                 IF normalized_token_for_content # << >>
                 THEN Append(acc,
                        [ original_form |-> raw_token,
                          normalized_form_for_content_comparison |->
                              normalized_token_for_content,
                          original_position_in_processed_ayah |-> idx ])
                 ELSE acc)

\* The reference words without the two filters of lines 269 and 274: a text
\* without tokens gives one word with empty forms
ayah_words_info_Unfiltered(text) ==
    IF SplitTokens(text) = << >>
    THEN << [ original_form |-> << >>,
              normalized_form_for_content_comparison |-> << >>,
              original_position_in_processed_ayah |-> 0 ] >>
    ELSE AyahInfoAcc(SplitTokens(text), 0, << >>)

\* The kept reference words numbered by their index among the kept words
ayah_words_info_KeptIndex(text) ==
    LET kept == AyahInfoAcc(SplitTokens(text), 0, << >>)
    IN  [i \in 1..Len(kept) |->
            [kept[i] EXCEPT !.original_position_in_processed_ayah = i - 1]]

ayah_words_info(text) == AyahInfoAcc(SplitTokens(text), 0, << >>)

\* Lines 281-284
transcribed_tokens(text) ==
    LET raw_words == SplitTokens(text)
        norm_words == [i \in 1..Len(raw_words) |->
                          normalize_arabic_text_for_comparison_content(raw_words[i])]
    IN  SelectSeq(norm_words, LAMBDA norm_word : norm_word # << >>)

\* 4. Prepare tokens for the main comparison loop (lines 268-291)
PrepareTokens ==
    /\ pc = "prepare_tokens"
    /\ ayah_words_for_comparison_info_list' =
          ayah_words_info(processed_ayah_text_for_comparison)
    /\ transcribed_tokens_for_comparison_normalized' =
          transcribed_tokens(processed_transcription_for_comparison)
    /\ incorrect_ayah_word_details' = << >>
    /\ user_word_idx' = 0
    /\ ayah_info_idx' = 0
    /\ pc' = "for"
    /\ UNCHANGED << text_vars, found_match_for_current_ayah_word, temp_user_idx_search,
                    current_matched_user_word_letters, match_positions, response >>
    /\ UNCHANGED << direct_call, concurrent_vars, audio_vars, crud_vars >>

\* The reference word of the current iteration
ayah_info == ayah_words_for_comparison_info_list[ayah_info_idx + 1]

\* ForNext that ends the loop at once when the transcript has no token
ForNext_ReturnOnEmptyTranscript ==
    /\ pc = "for"
    /\ IF /\ ayah_info_idx < Len(ayah_words_for_comparison_info_list)
          /\ transcribed_tokens_for_comparison_normalized # << >>
       THEN /\ found_match_for_current_ayah_word' = FALSE
            /\ temp_user_idx_search' = user_word_idx
            /\ pc' = "while"
       ELSE /\ pc' = "return"
            /\ UNCHANGED << found_match_for_current_ayah_word, temp_user_idx_search >>
    /\ UNCHANGED << text_vars, token_vars, incorrect_ayah_word_details, user_word_idx,
                    ayah_info_idx, current_matched_user_word_letters, match_positions,
                    response >>
    /\ UNCHANGED << direct_call, concurrent_vars, audio_vars, crud_vars >>

\* ForNext with the scan restarted at the first transcript token
ForNext_Rewind ==
    /\ pc = "for"
    /\ IF ayah_info_idx < Len(ayah_words_for_comparison_info_list)
       THEN /\ found_match_for_current_ayah_word' = FALSE
            /\ temp_user_idx_search' = 0
            /\ pc' = "while"
       ELSE /\ pc' = "return"
            /\ UNCHANGED << found_match_for_current_ayah_word, temp_user_idx_search >>
    /\ UNCHANGED << text_vars, token_vars, incorrect_ayah_word_details, user_word_idx,
                    ayah_info_idx, current_matched_user_word_letters, match_positions,
                    response >>
    /\ UNCHANGED << direct_call, concurrent_vars, audio_vars, crud_vars >>

\* Lines 293-299: the for loop takes its next reference word, or ends
ForNext ==
    /\ pc = "for"
    /\ IF ayah_info_idx < Len(ayah_words_for_comparison_info_list)
       THEN /\ found_match_for_current_ayah_word' = FALSE
            /\ temp_user_idx_search' = user_word_idx
            /\ pc' = "while"
       ELSE /\ pc' = "return"
            /\ UNCHANGED << found_match_for_current_ayah_word, temp_user_idx_search >>
    /\ UNCHANGED << text_vars, token_vars, incorrect_ayah_word_details, user_word_idx,
                    ayah_info_idx, current_matched_user_word_letters, match_positions,
                    response >>
    /\ UNCHANGED << direct_call, concurrent_vars, audio_vars, crud_vars >>

\* WhileScan that moves the cursor two tokens past a match
WhileScan_CursorPastNext ==
    /\ pc = "while"
    /\ IF temp_user_idx_search < Len(transcribed_tokens_for_comparison_normalized)
       THEN LET user_word_normalized_for_content ==
                    transcribed_tokens_for_comparison_normalized[temp_user_idx_search + 1]
            IN  IF check_word_match(ayah_info.normalized_form_for_content_comparison,
                                    user_word_normalized_for_content)
                THEN /\ found_match_for_current_ayah_word' = TRUE
                     /\ user_word_idx' = temp_user_idx_search + 2
                     /\ current_matched_user_word_letters' =
                           get_letters_and_harakat(user_word_normalized_for_content,
                                                   TRUE).letters
                     /\ match_positions' = Append(match_positions, temp_user_idx_search)
                     /\ pc' = "absorb"
                     /\ UNCHANGED temp_user_idx_search
                ELSE /\ temp_user_idx_search' = temp_user_idx_search + 1
                     /\ pc' = "while"
                     /\ UNCHANGED << found_match_for_current_ayah_word, user_word_idx,
                                     current_matched_user_word_letters, match_positions >>
       ELSE /\ pc' = "end_for"
            /\ UNCHANGED << found_match_for_current_ayah_word, user_word_idx,
                            temp_user_idx_search, current_matched_user_word_letters,
                            match_positions >>
    /\ UNCHANGED << text_vars, token_vars, incorrect_ayah_word_details, ayah_info_idx,
                    response >>
    /\ UNCHANGED << direct_call, concurrent_vars, audio_vars, crud_vars >>

\* WhileScan that passes over a matching token when a later token is the
\* reference word itself
WhileScan_PrefersExact ==
    /\ pc = "while"
    /\ IF temp_user_idx_search < Len(transcribed_tokens_for_comparison_normalized)
       THEN LET user_word_normalized_for_content ==
                    transcribed_tokens_for_comparison_normalized[temp_user_idx_search + 1]
                exact_later ==
                    \E q \in (temp_user_idx_search + 2)
                                ..Len(transcribed_tokens_for_comparison_normalized) :
                        transcribed_tokens_for_comparison_normalized[q]
                            = ayah_info.normalized_form_for_content_comparison
            IN  IF /\ check_word_match(ayah_info.normalized_form_for_content_comparison,
                                       user_word_normalized_for_content)
                   /\ \/ user_word_normalized_for_content
                            = ayah_info.normalized_form_for_content_comparison
                      \/ ~exact_later
                THEN /\ found_match_for_current_ayah_word' = TRUE
                     /\ user_word_idx' = temp_user_idx_search + 1
                     /\ current_matched_user_word_letters' =
                           get_letters_and_harakat(user_word_normalized_for_content,
                                                   TRUE).letters
                     /\ match_positions' = Append(match_positions, temp_user_idx_search)
                     /\ pc' = "absorb"
                     /\ UNCHANGED temp_user_idx_search
                ELSE /\ temp_user_idx_search' = temp_user_idx_search + 1
                     /\ pc' = "while"
                     /\ UNCHANGED << found_match_for_current_ayah_word, user_word_idx,
                                     current_matched_user_word_letters, match_positions >>
       ELSE /\ pc' = "end_for"
            /\ UNCHANGED << found_match_for_current_ayah_word, user_word_idx,
                            temp_user_idx_search, current_matched_user_word_letters,
                            match_positions >>
    /\ UNCHANGED << text_vars, token_vars, incorrect_ayah_word_details, ayah_info_idx,
                    response >>
    /\ UNCHANGED << direct_call, concurrent_vars, audio_vars, crud_vars >>

\* WhileScan that starts the scan again at the cursor when it reaches the end
\* of the transcript
WhileScan_WrapAround ==
    /\ pc = "while"
    /\ IF temp_user_idx_search < Len(transcribed_tokens_for_comparison_normalized)
       THEN LET user_word_normalized_for_content ==
                    transcribed_tokens_for_comparison_normalized[temp_user_idx_search + 1]
            IN  IF check_word_match(ayah_info.normalized_form_for_content_comparison,
                                    user_word_normalized_for_content)
                THEN /\ found_match_for_current_ayah_word' = TRUE
                     /\ user_word_idx' = temp_user_idx_search + 1
                     /\ current_matched_user_word_letters' =
                           get_letters_and_harakat(user_word_normalized_for_content,
                                                   TRUE).letters
                     /\ match_positions' = Append(match_positions, temp_user_idx_search)
                     /\ pc' = "absorb"
                     /\ UNCHANGED temp_user_idx_search
                ELSE /\ temp_user_idx_search' = temp_user_idx_search + 1
                     /\ pc' = "while"
                     /\ UNCHANGED << found_match_for_current_ayah_word, user_word_idx,
                                     current_matched_user_word_letters, match_positions >>
       ELSE /\ temp_user_idx_search' = user_word_idx
            /\ pc' = IF user_word_idx < temp_user_idx_search THEN "while" ELSE "end_for"
            /\ UNCHANGED << found_match_for_current_ayah_word, user_word_idx,
                            current_matched_user_word_letters, match_positions >>
    /\ UNCHANGED << text_vars, token_vars, incorrect_ayah_word_details, ayah_info_idx,
                    response >>
    /\ UNCHANGED << direct_call, concurrent_vars, audio_vars, crud_vars >>

\* Lines 300-306 and 315: one iteration of the forward scan
WhileScan ==
    /\ pc = "while"
    /\ IF temp_user_idx_search < Len(transcribed_tokens_for_comparison_normalized)
       THEN LET user_word_normalized_for_content ==
                    transcribed_tokens_for_comparison_normalized[temp_user_idx_search + 1]
            IN  IF check_word_match(ayah_info.normalized_form_for_content_comparison,
                                    user_word_normalized_for_content)
                THEN /\ found_match_for_current_ayah_word' = TRUE
                     /\ user_word_idx' = temp_user_idx_search + 1
                     /\ current_matched_user_word_letters' =
                           get_letters_and_harakat(user_word_normalized_for_content,
                                                   TRUE).letters
                     /\ match_positions' = Append(match_positions, temp_user_idx_search)
                     /\ pc' = "absorb"
                     /\ UNCHANGED temp_user_idx_search
                ELSE /\ temp_user_idx_search' = temp_user_idx_search + 1
                     /\ pc' = "while"
                     /\ UNCHANGED << found_match_for_current_ayah_word, user_word_idx,
                                     current_matched_user_word_letters, match_positions >>
       ELSE /\ pc' = "end_for"
            /\ UNCHANGED << found_match_for_current_ayah_word, user_word_idx,
                            temp_user_idx_search, current_matched_user_word_letters,
                            match_positions >>
    /\ UNCHANGED << text_vars, token_vars, incorrect_ayah_word_details, ayah_info_idx,
                    response >>
    /\ UNCHANGED << direct_call, concurrent_vars, audio_vars, crud_vars >>

\* AbsorbDuplicates that absorbs nothing
AbsorbDuplicates_None ==
    /\ pc = "absorb"
    /\ pc' = "end_for"
    /\ UNCHANGED << text_vars, token_vars, incorrect_ayah_word_details, user_word_idx,
                    ayah_info_idx, found_match_for_current_ayah_word, temp_user_idx_search,
                    current_matched_user_word_letters, match_positions, response >>
    /\ UNCHANGED << direct_call, concurrent_vars, audio_vars, crud_vars >>

\* Lines 307-314: one iteration of the duplicate-absorbing loop, or its end
AbsorbDuplicates ==
    /\ pc = "absorb"
    /\ IF user_word_idx < Len(transcribed_tokens_for_comparison_normalized)
       THEN LET next_user_word_norm_content ==
                    transcribed_tokens_for_comparison_normalized[user_word_idx + 1]
                next_user_word_letters ==
                    get_letters_and_harakat(next_user_word_norm_content, TRUE).letters
            IN  IF next_user_word_letters = current_matched_user_word_letters
                THEN /\ user_word_idx' = user_word_idx + 1
                     /\ pc' = "absorb"
                ELSE /\ pc' = "end_for"
                     /\ UNCHANGED user_word_idx
       ELSE /\ pc' = "end_for"
            /\ UNCHANGED user_word_idx
    /\ UNCHANGED << text_vars, token_vars, incorrect_ayah_word_details, ayah_info_idx,
                    found_match_for_current_ayah_word, temp_user_idx_search,
                    current_matched_user_word_letters, match_positions, response >>
    /\ UNCHANGED << direct_call, concurrent_vars, audio_vars, crud_vars >>

\* EndFor that leaves the cursor where an unsuccessful scan ended
EndFor_AdvanceCursor ==
    /\ pc = "end_for"
    /\ incorrect_ayah_word_details' =
          IF ~found_match_for_current_ayah_word
          THEN Append(incorrect_ayah_word_details,
                      [ word |-> ayah_info.original_form,
                        position |-> ayah_info.original_position_in_processed_ayah ])
          ELSE incorrect_ayah_word_details
    /\ user_word_idx' =
          IF ~found_match_for_current_ayah_word THEN temp_user_idx_search
          ELSE user_word_idx
    /\ ayah_info_idx' = ayah_info_idx + 1
    /\ pc' = "for"
    /\ UNCHANGED << text_vars, token_vars,
                    found_match_for_current_ayah_word, temp_user_idx_search,
                    current_matched_user_word_letters, match_positions, response >>
    /\ UNCHANGED << direct_call, concurrent_vars, audio_vars, crud_vars >>

\* EndFor that reports the content-normalized form of the word
EndFor_ReportsNormalizedForm ==
    /\ pc = "end_for"
    /\ incorrect_ayah_word_details' =
          IF ~found_match_for_current_ayah_word
          THEN Append(incorrect_ayah_word_details,
                      [ word |-> ayah_info.normalized_form_for_content_comparison,
                        position |-> ayah_info.original_position_in_processed_ayah ])
          ELSE incorrect_ayah_word_details
    /\ ayah_info_idx' = ayah_info_idx + 1
    /\ pc' = "for"
    /\ UNCHANGED << text_vars, token_vars, user_word_idx,
                    found_match_for_current_ayah_word, temp_user_idx_search,
                    current_matched_user_word_letters, match_positions, response >>
    /\ UNCHANGED << direct_call, concurrent_vars, audio_vars, crud_vars >>

\* EndFor that reports nothing
EndFor_NoReport ==
    /\ pc = "end_for"
    /\ ayah_info_idx' = ayah_info_idx + 1
    /\ pc' = "for"
    /\ UNCHANGED << text_vars, token_vars, incorrect_ayah_word_details, user_word_idx,
                    found_match_for_current_ayah_word, temp_user_idx_search,
                    current_matched_user_word_letters, match_positions, response >>
    /\ UNCHANGED << direct_call, concurrent_vars, audio_vars, crud_vars >>

\* Lines 317-320: an unmatched reference word is reported; next iteration
EndFor ==
    /\ pc = "end_for"
    /\ incorrect_ayah_word_details' =
          IF ~found_match_for_current_ayah_word
          THEN Append(incorrect_ayah_word_details,
                      [ word |-> ayah_info.original_form,
                        position |-> ayah_info.original_position_in_processed_ayah ])
          ELSE incorrect_ayah_word_details
    /\ ayah_info_idx' = ayah_info_idx + 1
    /\ pc' = "for"
    /\ UNCHANGED << text_vars, token_vars, user_word_idx,
                    found_match_for_current_ayah_word, temp_user_idx_search,
                    current_matched_user_word_letters, match_positions, response >>
    /\ UNCHANGED << direct_call, concurrent_vars, audio_vars, crud_vars >>

\* Return that answers with the working copy of the transcription
Return_WorkingCopy ==
    /\ pc = "return"
    /\ response' = [ status |-> 200,
                     transcribed_text |-> processed_transcription_for_comparison,
                     incorrect_ayah_words |-> incorrect_ayah_word_details ]
    /\ pc' = "done"
    /\ UNCHANGED << text_vars, token_vars, loop_vars >>
    /\ UNCHANGED << direct_call, concurrent_vars, audio_vars, crud_vars >>

\* Lines 326-329
Return ==
    /\ pc = "return"
    /\ response' = [ status |-> 200,
                     transcribed_text |-> original_transcription,
                     incorrect_ayah_words |-> incorrect_ayah_word_details ]
    /\ pc' = "done"
    /\ UNCHANGED << text_vars, token_vars, loop_vars >>
    /\ UNCHANGED << direct_call, concurrent_vars, audio_vars, crud_vars >>

\* The response is sent and the handler's frame is gone
Complete ==
    /\ pc = "done"
    /\ pc' = "idle"
    /\ ayah_text_input' = << >>
    /\ original_transcription' = << >>
    /\ processed_ayah_text_for_comparison' = << >>
    /\ processed_transcription_for_comparison' = << >>
    /\ is_al_fatiha_basmala_case' = FALSE
    /\ ayah_words_for_comparison_info_list' = << >>
    /\ transcribed_tokens_for_comparison_normalized' = << >>
    /\ incorrect_ayah_word_details' = << >>
    /\ user_word_idx' = 0
    /\ ayah_info_idx' = 0
    /\ found_match_for_current_ayah_word' = FALSE
    /\ temp_user_idx_search' = 0
    /\ current_matched_user_word_letters' = << >>
    /\ match_positions' = << >>
    /\ response' = NoResponse
    /\ UNCHANGED << direct_call, concurrent_vars, audio_vars, crud_vars >>

Next ==
    \/ ReceiveRequest
    \/ Transcribe
    \/ SurahHeaderRemoval
    \/ AlFatihaCheck
    \/ BasmalaStripping
    \/ PrepareTokens
    \/ ForNext
    \/ WhileScan
    \/ AbsorbDuplicates
    \/ EndFor
    \/ Return
    \/ Complete

Spec == Init /\ [][Next]_vars

\* The interpreter keeps running the comparison loop (lines 293-320): each of
\* its steps is taken when it stays possible. For the scan and the absorbing
\* loop weak fairness, WF_vars(A) = []<>~ENABLED <<A>>_vars \/ []<><<A>>_vars,
\* is written out with the step's position in place of ENABLED: a step at
\* "while" or "absorb" is always possible and always changes a variable.
FairSpec ==
    /\ Spec
    /\ WF_vars(ForNext)
    /\ WF_vars(EndFor)
    /\ ([]<>(pc # "while") \/ []<><<WhileScan>>_vars)
    /\ ([]<>(pc # "absorb") \/ []<><<AbsorbDuplicates>>_vars)

(***************************************************************************)
(* check_word_match called on its own                                      *)
(***************************************************************************)
REH == 1585

\* Bound on the length of the generated words
MaxWordLength == 3

\* Two letters that differ, a letter folded onto one of them, and a haraka
ScorerAlphabet == { REH, SEEN, SAD, FATHA }

\* The generated reference words, and two four-letter words without
\* diacritics
ScorerWords ==
    SeqUpTo(ScorerAlphabet, MaxWordLength)
    \cup { << REH, SEEN, REH, SEEN >>, << REH, REH, REH, SEEN >> }

\* The words one character substitution, deletion or insertion away from w
OneEdit(w) ==
    { [w EXCEPT ![i] = c] : i \in 1..Len(w), c \in ScorerAlphabet }
    \cup { Take(w, i - 1) \o Drop(w, i) : i \in 1..Len(w) }
    \cup { Take(w, i) \o << c >> \o Drop(w, i) : i \in 0..Len(w), c \in ScorerAlphabet }

\* The candidate words a reference word is scored against
Candidates(w) == OneEdit(w) \cup { w, << >>, W_QUL_D, W_ALLAH }

\* (letter_threshold, tashkeel_threshold) in hundredths: the values of the
\* threshold tests and the defaults of line 117
ScorerThresholds == { << 70, 60 >>, << 80, 60 >>, << LETTER_THRESHOLD, TASHKEEL_THRESHOLD >> }

ScorerInit ==
    /\ HandlerIdle
    /\ NoConcurrentCalls
    /\ NoAudioStage
    /\ NoCrudCall
    /\ \E a \in ScorerWords : \E u \in Candidates(a) : \E t \in ScorerThresholds :
          direct_call = [ function |-> "check_word_match",
                          ayah_word_normalized_for_content |-> a,
                          user_word_normalized_for_content |-> u,
                          letter_threshold |-> t[1],
                          tashkeel_threshold |-> t[2],
                          returned |-> FALSE,
                          result |-> FALSE ]

\* Lines 116-141: the call returns its verdict
CallCheckWordMatch ==
    /\ direct_call.function = "check_word_match"
    /\ ~direct_call.returned
    /\ direct_call' =
          [direct_call EXCEPT
              !.returned = TRUE,
              !.result = check_word_match_at(direct_call.ayah_word_normalized_for_content,
                                             direct_call.user_word_normalized_for_content,
                                             direct_call.letter_threshold,
                                             direct_call.tashkeel_threshold)]
    /\ UNCHANGED << handler_vars, concurrent_vars, audio_vars, crud_vars >>

ScorerNext == CallCheckWordMatch

ScorerSpec == ScorerInit /\ [][ScorerNext]_vars

(***************************************************************************)
(* normalize_arabic_text_for_comparison_content called on its own          *)
(***************************************************************************)
NO_BREAK_SPACE == 160
DIGIT_ONE == 49
ARABIC_INDIC_DIGIT_ONE == 1633

\* Bound on the length of the generated texts
MaxTextLength == 4

\* A character of each kind the normalization treats differently
NormalizerAlphabet ==
    { SPACE, NO_BREAK_SPACE, DIGIT_ONE, ARABIC_INDIC_DIGIT_ONE, END_OF_AYAH, DAGGER_ALIF, REH }

NormalizerTexts == SeqUpTo(NormalizerAlphabet, MaxTextLength)

NormalizerInit ==
    /\ HandlerIdle
    /\ NoConcurrentCalls
    /\ NoAudioStage
    /\ NoCrudCall
    /\ \E x \in NormalizerTexts :
          direct_call = [ function |-> "normalize_arabic_text_for_comparison_content",
                          text |-> x,
                          calls |-> 0,
                          once |-> << >>,
                          twice |-> << >> ]

\* Lines 56-76: the text is normalized
CallNormalize ==
    /\ direct_call.function = "normalize_arabic_text_for_comparison_content"
    /\ direct_call.calls = 0
    /\ direct_call' =
          [direct_call EXCEPT
              !.calls = 1,
              !.once = normalize_arabic_text_for_comparison_content(direct_call.text)]
    /\ UNCHANGED << handler_vars, concurrent_vars, audio_vars, crud_vars >>

\* Lines 56-76: the result is normalized again
CallNormalizeAgain ==
    /\ direct_call.function = "normalize_arabic_text_for_comparison_content"
    /\ direct_call.calls = 1
    /\ direct_call' =
          [direct_call EXCEPT
              !.calls = 2,
              !.twice = normalize_arabic_text_for_comparison_content(direct_call.once)]
    /\ UNCHANGED << handler_vars, concurrent_vars, audio_vars, crud_vars >>

NormalizerNext ==
    \/ CallNormalize
    \/ CallNormalizeAgain

NormalizerSpec == NormalizerInit /\ [][NormalizerNext]_vars

(***************************************************************************)
(* get_letters_and_harakat called on its own                               *)
(***************************************************************************)
\* A letter, a letter with a canonical decomposition, a relevant diacritic
\* and a letter whose compatibility decomposition holds no letter
ProfileAlphabet == { REH, ALEF_MADDA, FATHA, FATHA_ISOLATED_FORM }

\* The raw tokens
ProfileWords == SeqUpTo(ProfileAlphabet, MaxWordLength)

\* Lines 273 and 284: the argument is the normalized content of a token
ProfileInit ==
    /\ HandlerIdle
    /\ NoConcurrentCalls
    /\ NoAudioStage
    /\ NoCrudCall
    /\ \E w \in ProfileWords : \E phonetic \in BOOLEAN :
          direct_call = [ function |-> "get_letters_and_harakat",
                          token |-> w,
                          word_normalized_for_content |->
                              normalize_arabic_text_for_comparison_content(w),
                          apply_phonetic_normalization |-> phonetic,
                          returned |-> FALSE,
                          letters |-> << >>,
                          harakat |-> << >> ]

\* Lines 79-100: the call returns the letters and the pairs
CallGetLettersAndHarakat ==
    /\ direct_call.function = "get_letters_and_harakat"
    /\ ~direct_call.returned
    /\ LET profile == get_letters_and_harakat(direct_call.word_normalized_for_content,
                                              direct_call.apply_phonetic_normalization)
       IN  direct_call' = [direct_call EXCEPT !.returned = TRUE,
                                              !.letters = profile.letters,
                                              !.harakat = profile.harakat]
    /\ UNCHANGED << handler_vars, concurrent_vars, audio_vars, crud_vars >>

ProfileNext == CallGetLettersAndHarakat

ProfileSpec == ProfileInit /\ [][ProfileNext]_vars

(***************************************************************************)
(* levenshtein_distance called on its own                                  *)
(***************************************************************************)
\* Bound on the length of the generated strings
MaxStringLength == 4

LevenshteinAlphabet == { REH, SEEN }

LevenshteinStrings == SeqUpTo(LevenshteinAlphabet, MaxStringLength)

LevenshteinInit ==
    /\ HandlerIdle
    /\ NoConcurrentCalls
    /\ NoAudioStage
    /\ NoCrudCall
    /\ \E x \in LevenshteinStrings : \E y \in LevenshteinStrings :
          direct_call = [ function |-> "levenshtein_distance",
                          s1 |-> x,
                          s2 |-> y,
                          returned |-> FALSE,
                          result |-> 0 ]

\* Lines 102-114: the call returns the distance
CallLevenshteinDistance ==
    /\ direct_call.function = "levenshtein_distance"
    /\ ~direct_call.returned
    /\ direct_call' =
          [direct_call EXCEPT !.returned = TRUE,
                              !.result = levenshtein_distance(direct_call.s1,
                                                              direct_call.s2)]
    /\ UNCHANGED << handler_vars, concurrent_vars, audio_vars, crud_vars >>

LevenshteinNext == CallLevenshteinDistance

LevenshteinSpec == LevenshteinInit /\ [][LevenshteinNext]_vars

(***************************************************************************)
(* The audio stage of transcribe_and_compare_audio (lines 193-211)         *)
(***************************************************************************)
\* Bound on the number of requests received
MaxRequests == 3

\* A statement of the try block raises: the except clause is next
Raise(statement) == [audio EXCEPT !.failed_at = statement, !.pc = "except"]

\* Line 188: a request arrives with its upload
ReceiveAudio ==
    /\ audio.pc = "idle"
    /\ audio.requests < MaxRequests
    /\ audio' = [AudioIdle EXCEPT !.pc = "check_model", !.requests = audio.requests + 1]
    /\ UNCHANGED << temp_dir, handler_vars, direct_call, concurrent_vars, crud_vars >>

\* Line 193: without a loaded model the request is refused before the try
\* block
CheckModel ==
    /\ audio.pc = "check_model"
    /\ \/ audio' = [audio EXCEPT !.pc = "create_temp"]
       \/ audio' = [audio EXCEPT !.status = 503, !.pc = "raised"]
    /\ UNCHANGED << temp_dir, handler_vars, direct_call, concurrent_vars, crud_vars >>

\* Line 198: NamedTemporaryFile(delete=False) creates a file under a name no
\* other file has, or raises
CreateTempFile ==
    /\ audio.pc = "create_temp"
    /\ \/ /\ audio' = [audio EXCEPT !.tmp_file_name = audio.requests,
                                    !.pc = "read_upload"]
          /\ temp_dir' = temp_dir \cup { audio.requests }
       \/ /\ audio' = Raise("create")
          /\ UNCHANGED temp_dir
    /\ UNCHANGED << handler_vars, direct_call, concurrent_vars, crud_vars >>

\* Line 199: content = await audio_file.read(); when it raises the with
\* block closes the file, which stays in the directory (delete=False)
ReadUpload ==
    /\ audio.pc = "read_upload"
    /\ \/ audio' = [audio EXCEPT !.pc = "write_content"]
       \/ audio' = Raise("read")
    /\ UNCHANGED << temp_dir, handler_vars, direct_call, concurrent_vars, crud_vars >>

\* Line 199: tmp_file.write(content)
WriteContent ==
    /\ audio.pc = "write_content"
    /\ \/ audio' = [audio EXCEPT !.pc = "bind_path"]
       \/ audio' = Raise("write")
    /\ UNCHANGED << temp_dir, handler_vars, direct_call, concurrent_vars, crud_vars >>

\* Line 200: tmp_audio_file_path = tmp_file.name, the last statement of the
\* with block
BindPath ==
    /\ audio.pc = "bind_path"
    /\ audio' = [audio EXCEPT !.tmp_audio_file_path = audio.tmp_file_name,
                              !.pc = "load_audio"]
    /\ UNCHANGED << temp_dir, handler_vars, direct_call, concurrent_vars, crud_vars >>

\* Line 201: librosa.load decodes the file or raises
LoadAudio ==
    /\ audio.pc = "load_audio"
    /\ \/ audio' = [audio EXCEPT !.pc = "run_model"]
       \/ audio' = Raise("load")
    /\ UNCHANGED << temp_dir, handler_vars, direct_call, concurrent_vars, crud_vars >>

\* Lines 202-204: the ASR model transcribes or raises
RunModel ==
    /\ audio.pc = "run_model"
    /\ \/ audio' = [audio EXCEPT !.pc = "finally"]
       \/ audio' = Raise("model")
    /\ UNCHANGED << temp_dir, handler_vars, direct_call, concurrent_vars, crud_vars >>

\* Lines 206-208: the exception becomes an HTTPException with status 500
Except ==
    /\ audio.pc = "except"
    /\ audio' = [audio EXCEPT !.status = 500, !.pc = "finally"]
    /\ UNCHANGED << temp_dir, handler_vars, direct_call, concurrent_vars, crud_vars >>

\* Lines 209-211: the upload is closed and the file named by
\* tmp_audio_file_path, if that is set and the file exists, is removed; then
\* the HTTPException propagates or the handler goes on to line 213
Finally ==
    /\ audio.pc = "finally"
    /\ temp_dir' =
          IF audio.tmp_audio_file_path # 0 /\ audio.tmp_audio_file_path \in temp_dir
          THEN temp_dir \ { audio.tmp_audio_file_path }
          ELSE temp_dir
    /\ audio' = [audio EXCEPT !.pc = IF audio.status = 500 THEN "raised" ELSE "transcribed"]
    /\ UNCHANGED << handler_vars, direct_call, concurrent_vars, crud_vars >>

\* The request completes: the error response is sent, or lines 213-329 run
\* and return
CompleteRequest ==
    /\ audio.pc \in { "raised", "transcribed" }
    /\ audio' = [audio EXCEPT !.pc = "idle"]
    /\ UNCHANGED << temp_dir, handler_vars, direct_call, concurrent_vars, crud_vars >>

AudioNext ==
    \/ ReceiveAudio
    \/ CheckModel
    \/ CreateTempFile
    \/ ReadUpload
    \/ WriteContent
    \/ BindPath
    \/ LoadAudio
    \/ RunModel
    \/ Except
    \/ Finally
    \/ CompleteRequest

AudioSpec == Init /\ [][AudioNext]_vars

(***************************************************************************)
(* src/crud.py: update_frequent_errors and update_surah_progress, for one  *)
(* user and one mushaf.  The session is made with autoflush=False          *)
(* (src/database.py, line 32): a query reads the rows of the table, not    *)
(* the objects added since the last commit, and returns for a row the      *)
(* object the session already holds for it.                                *)
(***************************************************************************)
\* Bounds: the length of ayah_ids and the largest error_count reached
MaxAyahIds == 2
MaxErrorCount == 3

AyahIds == { 1, 2 }

\* The ayah_ids of a request
AyahIdLists == SeqUpTo(AyahIds, MaxAyahIds)

\* A session at the start of a call: loaded maps the ayah_id of each object
\* the session holds to its error_count, pending lists the ayah_id of each
\* object given to db.add, deleted holds the ayah_id of each object given to
\* db.delete
NewSession == [ loaded |-> << >>, pending |-> << >>, deleted |-> { } ]

\* The error_count of the object that a query returns for a row
Loaded(session, ayah_id) ==
    IF ayah_id \in DOMAIN session.loaded THEN session.loaded[ayah_id]
    ELSE error_table[ayah_id]

\* session.loaded with the object of ayah_id holding error_count
WithLoaded(session, ayah_id, error_count) ==
    [ id \in DOMAIN session.loaded \cup { ayah_id } |->
          IF id = ayah_id THEN error_count ELSE session.loaded[id] ]

\* crud.py lines 442-448: the loop of update_frequent_errors
RECURSIVE FrequentErrorsLoop(_, _)
FrequentErrorsLoop(ayah_ids, session) ==
    IF ayah_ids = << >> THEN session
    ELSE LET ayah_id == Head(ayah_ids)
         IN  FrequentErrorsLoop(Tail(ayah_ids),
                 IF ayah_id \in DOMAIN error_table
                 THEN [session EXCEPT
                          !.loaded = WithLoaded(session, ayah_id,
                                                Loaded(session, ayah_id) + 1)]
                 ELSE [session EXCEPT !.pending = Append(@, ayah_id)])

\* crud.py lines 516-521: the loop of update_surah_progress over the
\* frequent errors
RECURSIVE DecrementLoop(_, _)
DecrementLoop(ayah_ids, session) ==
    IF ayah_ids = << >> THEN session
    ELSE LET ayah_id == Head(ayah_ids)
             error_count == Loaded(session, ayah_id) - 1
         IN  DecrementLoop(Tail(ayah_ids),
                 IF ayah_id \in DOMAIN error_table
                 THEN [session EXCEPT
                          !.loaded = WithLoaded(session, ayah_id, error_count),
                          !.deleted = IF error_count <= 0 THEN @ \cup { ayah_id } ELSE @]
                 ELSE session)

\* db.commit() raises: two of the objects to insert have the same primary
\* key (user_id, ayah_id) (src/models.py, lines 289-290)
CommitRaises(session) ==
    \E i \in 1..Len(session.pending) : \E j \in 1..Len(session.pending) :
        i # j /\ session.pending[i] = session.pending[j]

\* db.commit(): the table after the DELETE, UPDATE and INSERT statements of
\* the flush
Committed(session) ==
    LET inserted == { session.pending[i] : i \in 1..Len(session.pending) }
    IN  [ id \in (DOMAIN error_table \ session.deleted) \cup inserted |->
              IF id \in inserted THEN 1 ELSE Loaded(session, id) ]

\* crud.py lines 440-449. A commit that raises stores nothing: the session is
\* closed without a commit (src/database.py, lines 39-44).
update_frequent_errors ==
    \E ayah_ids \in AyahIdLists :
        LET session == FrequentErrorsLoop(ayah_ids, NewSession)
        IN  /\ \A id \in DOMAIN session.loaded : session.loaded[id] <= MaxErrorCount
            /\ error_table' = IF CommitRaises(session) THEN error_table
                              ELSE Committed(session)
            /\ crud_call' = [ function |-> "update_frequent_errors",
                              ayah_ids |-> ayah_ids,
                              total_ayahs |-> 0,
                              before |-> error_table,
                              raised |-> CommitRaises(session) ]
            /\ UNCHANGED << handler_vars, direct_call, concurrent_vars, audio_vars >>

\* crud.py lines 477-526, the frequent errors only: nothing is done for a
\* surah that is not found (total_ayahs = 0, line 491)
update_surah_progress ==
    \E ayah_ids \in AyahIdLists : \E total_ayahs \in { 0, 7 } :
        LET session == DecrementLoop(ayah_ids, NewSession)
        IN  /\ error_table' = IF total_ayahs = 0 THEN error_table ELSE Committed(session)
            /\ crud_call' = [ function |-> "update_surah_progress",
                              ayah_ids |-> ayah_ids,
                              total_ayahs |-> total_ayahs,
                              before |-> error_table,
                              raised |-> FALSE ]
            /\ UNCHANGED << handler_vars, direct_call, concurrent_vars, audio_vars >>

CrudNext ==
    \/ update_frequent_errors
    \/ update_surah_progress

CrudSpec == Init /\ [][CrudNext]_vars

(***************************************************************************)
(* Concurrent calls of transcribe_and_compare_audio                        *)
(***************************************************************************)
\* The requests of the concurrent calls: a diacritic mistake, the invocation
\* alone, a reference that opens with the invocation, and a repeated word
ConcurrentRequests ==
    { [ ayah |-> JoinTokens(<< W_QUL_D, W_HUWA_D >>),
        transcription |-> JoinTokens(<< W_QUL_D, W_HUWA >>) ],
      [ ayah |-> JoinTokens(BASMALA_PLAIN),
        transcription |-> JoinTokens(BASMALA_IMPERFECT) ],
      [ ayah |-> JoinTokens(BASMALA_PLAIN \o << W_QUL_D, W_HUWA_D >>),
        transcription |-> JoinTokens(<< W_HUWA_D >>) ],
      [ ayah |-> REPEATED_WORD_AYAH,
        transcription |-> REPEATED_WORD_TRANSCRIPT ] }

\* Lines 191-217 and 282-287: the local names of a call that holds its
\* transcription
StartFrame(ayah, transcription) ==
    [ pc |-> "surah_header",
      ayah_text_input |-> ayah,
      original_transcription |-> transcription,
      processed_ayah_text_for_comparison |-> ayah,
      processed_transcription_for_comparison |-> transcription,
      is_al_fatiha_basmala_case |-> FALSE,
      ayah_words_for_comparison_info_list |-> << >>,
      transcribed_tokens_for_comparison_normalized |-> << >>,
      incorrect_ayah_word_details |-> << >>,
      user_word_idx |-> 0,
      ayah_info_idx |-> 0,
      found_match_for_current_ayah_word |-> FALSE,
      temp_user_idx_search |-> 0,
      current_matched_user_word_letters |-> << >>,
      response |-> NoResponse ]

\* Lines 289-305: one test of the scan of a call
FrameWhileScan(f) ==
    LET ayah_word == f.ayah_words_for_comparison_info_list[f.ayah_info_idx + 1]
        user_word_normalized_for_content ==
            f.transcribed_tokens_for_comparison_normalized[f.temp_user_idx_search + 1]
    IN  IF f.temp_user_idx_search >= Len(f.transcribed_tokens_for_comparison_normalized)
        THEN [f EXCEPT !.pc = "end_for"]
        ELSE IF check_word_match(ayah_word.normalized_form_for_content_comparison,
                                 user_word_normalized_for_content)
             THEN [f EXCEPT !.found_match_for_current_ayah_word = TRUE,
                            !.user_word_idx = f.temp_user_idx_search + 1,
                            !.current_matched_user_word_letters =
                                get_letters_and_harakat(user_word_normalized_for_content,
                                                        TRUE).letters,
                            !.pc = "absorb"]
             ELSE [f EXCEPT !.temp_user_idx_search = @ + 1]

\* Lines 307-314: one iteration of the duplicate-absorbing loop of a call
FrameAbsorbDuplicates(f) ==
    LET next_user_word_norm_content ==
            f.transcribed_tokens_for_comparison_normalized[f.user_word_idx + 1]
    IN  IF f.user_word_idx >= Len(f.transcribed_tokens_for_comparison_normalized)
        THEN [f EXCEPT !.pc = "end_for"]
        ELSE IF get_letters_and_harakat(next_user_word_norm_content, TRUE).letters
                   = f.current_matched_user_word_letters
             THEN [f EXCEPT !.user_word_idx = @ + 1]
             ELSE [f EXCEPT !.pc = "end_for"]

\* Lines 316-320: the end of an iteration of the for loop of a call
FrameEndFor(f) ==
    LET ayah_word == f.ayah_words_for_comparison_info_list[f.ayah_info_idx + 1]
    IN  [f EXCEPT !.incorrect_ayah_word_details =
                      IF ~f.found_match_for_current_ayah_word
                      THEN Append(@, [ word |-> ayah_word.original_form,
                                       position |->
                                           ayah_word.original_position_in_processed_ayah ])
                      ELSE @,
                  !.ayah_info_idx = @ + 1,
                  !.pc = "for"]

\* Lines 219-329: the next step of a call on its local names f, reading the
\* module-level names g
FrameStep(f, g) ==
    CASE f.pc = "surah_header" ->
            [f EXCEPT !.processed_ayah_text_for_comparison = SurahHeaderRemoved(@),
                      !.pc = "fatiha_check"]
      [] f.pc = "fatiha_check" ->
            [f EXCEPT !.is_al_fatiha_basmala_case =
                          (normalize_text_for_detection(f.processed_ayah_text_for_comparison)
                              = g.BASMALA_NORMALIZED_FOR_DETECTION),
                      !.pc = "basmala_strip"]
      [] f.pc = "basmala_strip" ->
            IF f.is_al_fatiha_basmala_case
            THEN [f EXCEPT !.pc = "prepare_tokens"]
            ELSE [f EXCEPT !.processed_ayah_text_for_comparison =
                               _strip_prefix_from_raw_text(@,
                                   g.BASMALA_TOKENS_NORMALIZED_FOR_DETECTION,
                                   Len(g.BASMALA_TOKENS_NORMALIZED_FOR_DETECTION)),
                           !.processed_transcription_for_comparison =
                               _strip_prefix_from_raw_text(@,
                                   g.BASMALA_TOKENS_NORMALIZED_FOR_DETECTION,
                                   Len(g.BASMALA_TOKENS_NORMALIZED_FOR_DETECTION)),
                           !.pc = "prepare_tokens"]
      [] f.pc = "prepare_tokens" ->
            [f EXCEPT !.ayah_words_for_comparison_info_list =
                          ayah_words_info(f.processed_ayah_text_for_comparison),
                      !.transcribed_tokens_for_comparison_normalized =
                          transcribed_tokens(f.processed_transcription_for_comparison),
                      !.pc = "for"]
      [] f.pc = "for" ->
            IF f.ayah_info_idx < Len(f.ayah_words_for_comparison_info_list)
            THEN [f EXCEPT !.found_match_for_current_ayah_word = FALSE,
                           !.temp_user_idx_search = f.user_word_idx,
                           !.pc = "while"]
            ELSE [f EXCEPT !.pc = "return"]
      [] f.pc = "while" -> FrameWhileScan(f)
      [] f.pc = "absorb" -> FrameAbsorbDuplicates(f)
      [] f.pc = "end_for" -> FrameEndFor(f)
      [] f.pc = "return" ->
            [f EXCEPT !.response =
                          [ status |-> 200,
                            transcribed_text |-> f.original_transcription,
                            incorrect_ayah_words |-> f.incorrect_ayah_word_details ],
                      !.pc = "done"]

\* Lines 219-329 run from f to the return with no other call in progress
RECURSIVE RunAlone(_)
RunAlone(f) ==
    IF f.pc = "done" THEN f ELSE RunAlone(FrameStep(f, ModuleGlobalsAtImport))

\* Line 188: the event loop starts the coroutine of a request; its
\* transcription is the one the ASR model returns at lines 195-211
StartCall(c) ==
    /\ frames[c].pc = "idle"
    /\ \E r \in ConcurrentRequests :
          frames' = [frames EXCEPT ![c] = StartFrame(r.ayah, r.transcription)]
    /\ UNCHANGED << module_globals, handler_vars, direct_call, audio_vars, crud_vars >>

\* CallStep whose Basmala stripping consumes the module-level token list
CallStep_ConsumesPattern(c) ==
    /\ frames[c].pc \notin { "idle", "done" }
    /\ frames' = [frames EXCEPT ![c] = FrameStep(frames[c], module_globals)]
    /\ module_globals' =
          IF frames[c].pc = "basmala_strip"
          THEN [module_globals EXCEPT !.BASMALA_TOKENS_NORMALIZED_FOR_DETECTION = << >>]
          ELSE module_globals
    /\ UNCHANGED << handler_vars, direct_call, audio_vars, crud_vars >>

\* Lines 219-329: the call c takes its next step; it assigns local names only
CallStep(c) ==
    /\ frames[c].pc \notin { "idle", "done" }
    /\ frames' = [frames EXCEPT ![c] = FrameStep(frames[c], module_globals)]
    /\ UNCHANGED << module_globals, handler_vars, direct_call, audio_vars, crud_vars >>

ConcurrentNext ==
    \E c \in Calls :
        \/ StartCall(c)
        \/ CallStep(c)

ConcurrentSpec == Init /\ [][ConcurrentNext]_vars

(***************************************************************************)
(* Properties                                                              *)
(***************************************************************************)
Last(s) == s[Len(s)]

StrictlyIncreasing(s) == \A i \in 1..(Len(s) - 1) : s[i] < s[i + 1]

\* C1: for every non-empty reference text R, grading R against the
\* transcript R returns an empty incorrect_words list.
C1_IdentityMatch ==
    (pc = "return" /\ ayah_text_input # << >> /\ original_transcription = ayah_text_input)
        => incorrect_ayah_word_details = << >>

\* C2: during one grading call user_word_idx never decreases; every match is
\* found at or after the cursor and moves the cursor past it, so the
\* transcript positions of successive matches are strictly increasing.
C2_MonotonicCursor ==
    /\ [](StrictlyIncreasing(match_positions))
    /\ [][pc # "done" => user_word_idx' >= user_word_idx]_vars
    /\ [][match_positions' # match_positions /\ pc = "while" =>
             /\ Last(match_positions') >= user_word_idx
             /\ user_word_idx' > Last(match_positions')]_vars

\* C2 witness: a finished call with three matches and an unmatched reference
\* word between them
C2_Witness ==
    /\ pc = "return"
    /\ Len(match_positions) >= 3
    /\ incorrect_ayah_word_details # << >>
    /\ Last(incorrect_ayah_word_details).position
          < Last(ayah_words_for_comparison_info_list).original_position_in_processed_ayah

\* The four verse words of the scenarios, each reported at its position
SCENARIO_ALL_INCORRECT ==
    << [ word |-> W_QUL_D, position |-> 0 ], [ word |-> W_HUWA_D, position |-> 1 ],
       [ word |-> W_ALLAHU_D, position |-> 2 ], [ word |-> W_AHAD_D, position |-> 3 ] >>

\* C3 as stated: for the diacritized invocation + verse reference and the
\* undiacritized transcript without the invocation, the invocation is
\* stripped from the reference and no word is reported incorrect.
C3_Original ==
    (/\ pc = "return"
     /\ ayah_text_input = SCENARIO_AYAH_WITH_BASMALA
     /\ original_transcription = TRANSCRIPT_PLAIN_AHAD)
        => /\ processed_ayah_text_for_comparison = SCENARIO_AYAH
           /\ incorrect_ayah_word_details = << >>

\* C3 amended: for that reference the invocation is stripped from the
\* reference; against the undiacritized transcript all four verse words are
\* reported incorrect at positions 0..3 (none of their fatha/damma/kasra marks
\* is in the transcript), and no word is reported when the transcript carries
\* the verse's diacritics.
C3_ScenarioGraded ==
    (pc = "return" /\ ayah_text_input = SCENARIO_AYAH_WITH_BASMALA)
        => /\ processed_ayah_text_for_comparison = SCENARIO_AYAH
           /\ original_transcription = TRANSCRIPT_PLAIN_AHAD
                 => incorrect_ayah_word_details = SCENARIO_ALL_INCORRECT
           /\ original_transcription = SCENARIO_AYAH
                 => incorrect_ayah_word_details = << >>

C3_Witness ==
    /\ pc = "return"
    /\ ayah_text_input = SCENARIO_AYAH_WITH_BASMALA
    /\ original_transcription = TRANSCRIPT_PLAIN_AHAD
    /\ Len(incorrect_ayah_word_details) = 4

\* C4 as stated: the diacritized verse against the undiacritized transcript
\* ending in samad reports exactly the last reference word, at position 3.
C4_Original ==
    (/\ pc = "return"
     /\ ayah_text_input = SCENARIO_AYAH
     /\ original_transcription = TRANSCRIPT_PLAIN_SAMAD)
        => incorrect_ayah_word_details = << [ word |-> W_AHAD_D, position |-> 3 ] >>

\* C4 amended: against the undiacritized transcript all four reference words
\* are reported (positions 0..3); exactly the last word, at position 3, is
\* reported when the transcript carries the diacritics and differs in the
\* last word only.
C4_ScenarioGraded ==
    (pc = "return" /\ ayah_text_input = SCENARIO_AYAH)
        => /\ original_transcription = TRANSCRIPT_PLAIN_SAMAD
                 => incorrect_ayah_word_details = SCENARIO_ALL_INCORRECT
           /\ original_transcription = TRANSCRIPT_DIACRITIZED_SAMAD
                 => incorrect_ayah_word_details = << [ word |-> W_AHAD_D, position |-> 3 ] >>

C4_Witness ==
    /\ pc = "return"
    /\ ayah_text_input = SCENARIO_AYAH
    /\ original_transcription = TRANSCRIPT_DIACRITIZED_SAMAD
    /\ Len(incorrect_ayah_word_details) = 1

\* The index, among the reference words kept for the loop, of the word
\* reported at raw position p
KeptIndexOf(p) ==
    CHOOSE i \in 0..(Len(ayah_words_for_comparison_info_list) - 1) :
        ayah_words_for_comparison_info_list[i + 1].original_position_in_processed_ayah = p

AlignerPcs == {"for", "while", "absorb", "end_for", "return"}

\* The number of invocation tokens, k
InvocationLength == Len(BASMALA_TOKENS_NORMALIZED_FOR_DETECTION)

\* The first k tokens detection-normalize to the invocation pattern
StartsWithInvocation(tokens) ==
    /\ Len(tokens) >= InvocationLength
    /\ \A i \in 1..InvocationLength :
          normalize_text_for_detection(tokens[i]) = BASMALA_TOKENS_NORMALIZED_FOR_DETECTION[i]

\* The first token detection-normalizes to the chapter word
StartsWithChapterWord(text) ==
    /\ SplitTokens(text) # << >>
    /\ normalize_text_for_detection(SplitTokens(text)[1]) = SURAH_WORD_NORMALIZED_FOR_DETECTION

\* The exemption case: the reference after header removal is the invocation
Exempt ==
    normalize_text_for_detection(SurahHeaderRemoved(ayah_text_input))
        = BASMALA_NORMALIZED_FOR_DETECTION

\* C6 as stated: when the content-normalized reference equals the
\* content-normalized invocation phrase, grading returns an empty list for
\* every transcript and the aligner loop is not run.
C6_Original ==
    (/\ pc = "return"
     /\ normalize_arabic_text_for_comparison_content(ayah_text_input)
           = normalize_arabic_text_for_comparison_content(BASMALA_EXACT_TEXT))
        => /\ incorrect_ayah_word_details = << >>
           /\ ayah_info_idx = 0

\* C6 amended: when the content-normalized reference equals the
\* content-normalized invocation phrase there is no early return and the
\* result is the comparison loop's: every kept reference word is evaluated
\* and is either matched or reported. In the Al-Fatiha case (the reference
\* also detection-normalizes to the invocation) the loop evaluates the four
\* invocation words, and for a transcript without tokens all four are
\* reported. Otherwise (a verse number follows the invocation) a detected
\* invocation is stripped, no word is left to evaluate and the list is empty.
C6_InvocationOnlyIsAligned ==
    (/\ pc = "return"
     /\ normalize_arabic_text_for_comparison_content(ayah_text_input)
           = normalize_arabic_text_for_comparison_content(BASMALA_EXACT_TEXT))
        => /\ ayah_info_idx = Len(ayah_words_for_comparison_info_list)
           /\ Len(incorrect_ayah_word_details) + Len(match_positions)
                 = Len(ayah_words_for_comparison_info_list)
           /\ is_al_fatiha_basmala_case = Exempt
           /\ is_al_fatiha_basmala_case =>
                 /\ Len(ayah_words_for_comparison_info_list) = InvocationLength
                 /\ transcribed_tokens_for_comparison_normalized = << >>
                       => Len(incorrect_ayah_word_details) = InvocationLength
           /\ (/\ ~is_al_fatiha_basmala_case
               /\ StartsWithInvocation(SplitTokens(SurahHeaderRemoved(ayah_text_input)))) =>
                 /\ ayah_words_for_comparison_info_list = << >>
                 /\ incorrect_ayah_word_details = << >>

C6_Witness ==
    /\ pc = "return"
    /\ normalize_arabic_text_for_comparison_content(ayah_text_input)
          = normalize_arabic_text_for_comparison_content(BASMALA_EXACT_TEXT)
    /\ original_transcription = << >>
    /\ Len(incorrect_ayah_word_details) = InvocationLength

\* C7: in the exemption case the invocation is stripped from neither text:
\* after the stripping step the reference is the header-free reference and
\* the transcription is the ASR output, and the loop works on their tokens.
C7_InvocationExemption ==
    Exempt =>
        /\ pc \in AlignerPcs \cup {"prepare_tokens"} =>
              /\ processed_ayah_text_for_comparison = SurahHeaderRemoved(ayah_text_input)
              /\ processed_transcription_for_comparison = original_transcription
        /\ pc \in AlignerPcs =>
              /\ ayah_words_for_comparison_info_list
                    = ayah_words_info(SurahHeaderRemoved(ayah_text_input))
              /\ StartsWithInvocation(
                    [i \in 1..Len(ayah_words_for_comparison_info_list) |->
                        ayah_words_for_comparison_info_list[i].original_form])
              /\ transcribed_tokens_for_comparison_normalized
                    = transcribed_tokens(original_transcription)

\* C7 witness: the exemption case with a header in the reference and a
\* transcription that starts with the invocation, in the loop
C7_Witness ==
    /\ Exempt
    /\ pc = "for"
    /\ StartsWithChapterWord(ayah_text_input)
    /\ StartsWithInvocation(SplitTokens(original_transcription))
    /\ StartsWithInvocation(transcribed_tokens_for_comparison_normalized)

\* The reference consists solely of the invocation phrase
InvocationOnly ==
    normalize_text_for_detection(ayah_text_input) = BASMALA_NORMALIZED_FOR_DETECTION

\* C8: an invocation-only reference is graded: the loop runs over the four
\* invocation words, a word counts as found only on a transcript token that
\* matches it, and every evaluated word without a match is reported.
C8_InvocationOnlyIsGraded ==
    InvocationOnly =>
        /\ pc \in AlignerPcs =>
              Len(ayah_words_for_comparison_info_list) = InvocationLength
        /\ (pc = "end_for" /\ found_match_for_current_ayah_word) =>
              check_word_match(ayah_info.normalized_form_for_content_comparison,
                  transcribed_tokens_for_comparison_normalized[temp_user_idx_search + 1])
        /\ (pc = "end_for" /\ ~found_match_for_current_ayah_word) =>
              \A q \in user_word_idx..(Len(transcribed_tokens_for_comparison_normalized) - 1) :
                  ~check_word_match(ayah_info.normalized_form_for_content_comparison,
                       transcribed_tokens_for_comparison_normalized[q + 1])
        /\ pc \in {"for", "return"} =>
              Len(incorrect_ayah_word_details) + Len(match_positions) = ayah_info_idx
        /\ pc = "return" => ayah_info_idx = InvocationLength

\* C8 witness: the invocation recited without its third word; that word
\* alone is reported
C8_Witness ==
    /\ pc = "return"
    /\ ayah_text_input = JoinTokens(BASMALA_PLAIN)
    /\ original_transcription = JoinTokens(BASMALA_IMPERFECT)
    /\ incorrect_ayah_word_details = << [ word |-> W_ALRAHMAN, position |-> 2 ] >>

\* C9: outside the exemption case each text loses its first k tokens exactly
\* when its own first k tokens detection-normalize to the invocation pattern,
\* whatever the other text does, and a text that does not match is unchanged.
C9_IndependentStripping ==
    (pc = "prepare_tokens" /\ ~Exempt) =>
        LET ayah_before == SurahHeaderRemoved(ayah_text_input)
            ayah_tokens == SplitTokens(ayah_before)
            transcription_tokens == SplitTokens(original_transcription)
        IN  /\ SplitTokens(processed_ayah_text_for_comparison)
                  = IF StartsWithInvocation(ayah_tokens)
                    THEN Drop(ayah_tokens, InvocationLength) ELSE ayah_tokens
            /\ ~StartsWithInvocation(ayah_tokens)
                  => processed_ayah_text_for_comparison = ayah_before
            /\ SplitTokens(processed_transcription_for_comparison)
                  = IF StartsWithInvocation(transcription_tokens)
                    THEN Drop(transcription_tokens, InvocationLength)
                    ELSE transcription_tokens
            /\ ~StartsWithInvocation(transcription_tokens)
                  => processed_transcription_for_comparison = original_transcription

\* C9 witness: the transcription was stripped and the reference, which does
\* not start with the invocation, was not
C9_Witness ==
    /\ pc = "prepare_tokens"
    /\ ~Exempt
    /\ ~StartsWithInvocation(SplitTokens(SurahHeaderRemoved(ayah_text_input)))
    /\ processed_ayah_text_for_comparison # << >>
    /\ StartsWithInvocation(SplitTokens(original_transcription))
    /\ processed_transcription_for_comparison # original_transcription

\* C10: chapter-header removal takes the header tokens from the reference and
\* leaves the transcription as the ASR returned it, also when the
\* transcription begins with the chapter word, which then reaches the loop.
C10_HeaderRemovalReferenceOnly ==
    /\ pc = "fatiha_check" =>
          /\ processed_transcription_for_comparison = original_transcription
          /\ StartsWithChapterWord(ayah_text_input) =>
                LET tokens == SplitTokens(ayah_text_input)
                IN  /\ SplitTokens(processed_ayah_text_for_comparison)
                          = Drop(tokens, num_header_words_to_strip(tokens))
                    /\ Len(SplitTokens(processed_ayah_text_for_comparison)) < Len(tokens)
    /\ (pc \in AlignerPcs /\ StartsWithChapterWord(original_transcription)) =>
          transcribed_tokens_for_comparison_normalized
              = transcribed_tokens(original_transcription)

\* C10 witness: the reference and the transcription both begin with the
\* chapter word; the header has left the reference only
C10_Witness ==
    /\ pc = "fatiha_check"
    /\ StartsWithChapterWord(ayah_text_input)
    /\ StartsWithChapterWord(original_transcription)
    /\ ~StartsWithChapterWord(processed_ayah_text_for_comparison)
    /\ StartsWithChapterWord(processed_transcription_for_comparison)

\* The phonetic letters string of the transcript token at zero-based index q
TranscriptLetters(q) ==
    get_letters_and_harakat(transcribed_tokens_for_comparison_normalized[q + 1], TRUE).letters

\* C11: after a reference word matched the transcript token at position p the
\* cursor ends at the smallest q > p that is the transcript length or whose
\* token's phonetic letters differ from those of token p, and the next
\* reference word starts its scan at that q.
C11_DuplicateAbsorption ==
    /\ []((pc = "end_for" /\ found_match_for_current_ayah_word) =>
            LET p == Last(match_positions)
                q == user_word_idx
            IN  /\ p = temp_user_idx_search
                /\ q > p
                /\ q <= Len(transcribed_tokens_for_comparison_normalized)
                /\ \A r \in (p + 1)..(q - 1) : TranscriptLetters(r) = TranscriptLetters(p)
                /\ \/ q = Len(transcribed_tokens_for_comparison_normalized)
                   \/ TranscriptLetters(q) # TranscriptLetters(p))
    /\ [][(pc = "end_for" /\ pc' = "for") => user_word_idx' = user_word_idx]_vars
    /\ [][(pc = "for" /\ pc' = "while") => temp_user_idx_search' = user_word_idx]_vars

\* C11 witness: the one-word reference against the transcript that repeats
\* it and goes on; the match at 0 leaves the cursor at 2, on the third token
C11_Witness ==
    /\ pc = "end_for"
    /\ found_match_for_current_ayah_word
    /\ ayah_text_input = REPEATED_WORD_AYAH
    /\ original_transcription = REPEATED_WORD_TRANSCRIPT
    /\ Last(match_positions) = 0
    /\ user_word_idx = 2
    /\ transcribed_tokens_for_comparison_normalized[user_word_idx + 1] = W_AKBAR

\* C12: a scan that reaches the end of the transcript without a match appends
\* the reference word's surface form and index to the incorrect list, and the
\* cursor keeps the value it had before the scan: only a match moves it, so
\* the next reference word scans the same transcript suffix.
C12_NoMatchStep ==
    /\ []((pc = "end_for" /\ ~found_match_for_current_ayah_word) =>
            /\ temp_user_idx_search = Len(transcribed_tokens_for_comparison_normalized)
            /\ user_word_idx <= temp_user_idx_search)
    /\ [][(pc = "end_for" /\ ~found_match_for_current_ayah_word) =>
            /\ incorrect_ayah_word_details' =
                  Append(incorrect_ayah_word_details,
                         [ word |-> ayah_info.original_form,
                           position |-> ayah_info.original_position_in_processed_ayah ])
            /\ user_word_idx' = user_word_idx]_vars
    /\ [][(pc \in {"for", "while", "end_for"} /\ pc' # "absorb") =>
            user_word_idx' = user_word_idx]_vars
    /\ [][(pc = "for" /\ pc' = "while") => temp_user_idx_search' = user_word_idx]_vars

\* C12 witness: after a match, a reference word was reported and the next
\* reference word starts its scan at the unmoved cursor, before the end of
\* the transcript
C12_Witness ==
    /\ pc = "while"
    /\ match_positions # << >>
    /\ incorrect_ayah_word_details # << >>
    /\ ayah_info_idx >= 1
    /\ Last(incorrect_ayah_word_details).position
          = ayah_words_for_comparison_info_list[ayah_info_idx].original_position_in_processed_ayah
    /\ temp_user_idx_search = user_word_idx
    /\ user_word_idx = Last(match_positions) + 1
    /\ user_word_idx < Len(transcribed_tokens_for_comparison_normalized)

\* C13: when the transcript has no token for the loop (it is empty, or
\* nothing is left of it after stripping and normalization), every word of
\* the reference sequence is reported, in order, so the number of incorrect
\* words is the number of reference words.
C13_EmptyTranscript ==
    (pc = "return" /\ transcribed_tokens_for_comparison_normalized = << >>) =>
        /\ Len(incorrect_ayah_word_details) = Len(ayah_words_for_comparison_info_list)
        /\ \A k \in 1..Len(ayah_words_for_comparison_info_list) :
              incorrect_ayah_word_details[k] =
                  [ word |-> ayah_words_for_comparison_info_list[k].original_form,
                    position |->
                        ayah_words_for_comparison_info_list[k].original_position_in_processed_ayah ]

\* C13 witness: a transcript that holds the invocation only and is empty
\* after stripping; both reference words are reported
C13_Witness ==
    /\ pc = "return"
    /\ original_transcription # << >>
    /\ transcribed_tokens_for_comparison_normalized = << >>
    /\ Len(ayah_words_for_comparison_info_list) >= 2
    /\ Len(incorrect_ayah_word_details) = Len(ayah_words_for_comparison_info_list)

\* C14: an empty or whitespace-only reference text gives an empty reference
\* word sequence and, for every transcript, an empty incorrect list in a
\* normal (200) response.
C14_EmptyReference ==
    Strip(ayah_text_input) = << >> =>
        /\ pc \in AlignerPcs =>
              /\ ayah_words_for_comparison_info_list = << >>
              /\ incorrect_ayah_word_details = << >>
              /\ pc \in {"for", "return"}
        /\ pc = "done" =>
              /\ response.status = 200
              /\ response.incorrect_ayah_words = << >>
              /\ response.transcribed_text = original_transcription

\* C14 witness: the whitespace-only reference answered against a transcript
\* that has tokens
C14_Witness ==
    /\ pc = "done"
    /\ ayah_text_input = WHITESPACE_ONLY
    /\ transcribed_tokens_for_comparison_normalized # << >>
    /\ response.status = 200
    /\ response.incorrect_ayah_words = << >>

\* s is t or t with one element appended
SameOrOneMore(s, t) == s = t \/ (Len(s) = Len(t) + 1 /\ Take(s, Len(t)) = t)

\* C15: the loop terminates; it evaluates the N reference words once each, in
\* order (the loop index goes up by one per evaluation, to N); each
\* evaluation ends with the word matched or reported, never both, and the
\* decisions already taken stay as they are.
C15_Termination ==
    /\ (pc = "for" /\ ayah_info_idx = 0) ~> (pc = "return")
    /\ [](pc = "return" =>
            /\ ayah_info_idx = Len(ayah_words_for_comparison_info_list)
            /\ Len(incorrect_ayah_word_details) + Len(match_positions) = ayah_info_idx)
    /\ [](pc \in {"for", "while"} =>
            Len(incorrect_ayah_word_details) + Len(match_positions) = ayah_info_idx)
    /\ [][pc = "end_for" =>
            /\ ayah_info_idx' = ayah_info_idx + 1
            /\ Len(incorrect_ayah_word_details') + Len(match_positions') = ayah_info_idx']_vars
    /\ [][(pc \in {"for", "while", "absorb", "return"}) =>
            ayah_info_idx' = ayah_info_idx]_vars
    /\ [][(pc \in AlignerPcs) =>
            /\ SameOrOneMore(incorrect_ayah_word_details', incorrect_ayah_word_details)
            /\ SameOrOneMore(match_positions', match_positions)
            /\ \/ incorrect_ayah_word_details' = incorrect_ayah_word_details
               \/ match_positions' = match_positions]_vars

\* C15 witness: a loop over four reference words has ended with words matched
\* and words reported
C15_Witness ==
    /\ pc = "return"
    /\ ayah_info_idx >= 4
    /\ match_positions # << >>
    /\ incorrect_ayah_word_details # << >>

\* The letters string and the diacritic pairs the scorer compares
LettersOf(w) == get_letters_and_harakat(w, TRUE).letters
HarakatOf(w) == get_letters_and_harakat(w, TRUE).harakat

\* The number of positions at which two strings of one length differ
Differences(x, y) == Cardinality({i \in 1..Len(x) : x[i] # y[i]})

LetterThresholdMet(a, u, letter_threshold) ==
    LET ayah_letters == LettersOf(a)
        user_letters == LettersOf(u)
        max_len == Max2(Len(ayah_letters), Len(user_letters))
    IN  /\ ayah_letters # << >>
        /\ user_letters # << >>
        /\ (max_len - levenshtein_distance(ayah_letters, user_letters)) * 100
              >= letter_threshold * max_len

\* The number of the reference's (letter_index, mark) pairs found in the candidate
PairsInCandidate(a, u) ==
    LET ayah_harakat == HarakatOf(a)
        user_harakat == HarakatOf(u)
    IN  Cardinality({i \in 1..Len(ayah_harakat) :
                        \E j \in 1..Len(user_harakat) : user_harakat[j] = ayah_harakat[i]})

\* The words u with one more fatha, damma or kasra somewhere
AddOneHaraka(u) ==
    { Take(u, i) \o << h >> \o Drop(u, i) : i \in 0..Len(u), h \in RELEVANT_HARAKAT }

\* C17: once the letter threshold is met the verdict is decided by the number
\* of the reference's (letter_index, mark) pairs that occur in the candidate;
\* one more diacritic in the candidate never turns a match into a non-match,
\* and a reference without recorded diacritics matches whatever diacritics the
\* candidate carries.
C17_DiacriticAsymmetry ==
    LET a == direct_call.ayah_word_normalized_for_content
        u == direct_call.user_word_normalized_for_content
        lt == direct_call.letter_threshold
        tt == direct_call.tashkeel_threshold
        ayah_harakat == HarakatOf(a)
    IN  (/\ direct_call.function = "check_word_match"
         /\ direct_call.returned
         /\ LetterThresholdMet(a, u, lt))
            => /\ direct_call.result =
                     (\/ ayah_harakat = << >>
                      \/ PairsInCandidate(a, u) * 100 >= tt * Len(ayah_harakat))
               /\ direct_call.result =>
                     \A u2 \in AddOneHaraka(u) : check_word_match_at(a, u2, lt, tt)
               /\ ayah_harakat = << >> => direct_call.result

\* C17 witness: a match of a reference that has diacritics with a candidate
\* that has more
C17_Witness ==
    LET a == direct_call.ayah_word_normalized_for_content
        u == direct_call.user_word_normalized_for_content
    IN  /\ direct_call.function = "check_word_match"
        /\ direct_call.returned
        /\ direct_call.result
        /\ HarakatOf(a) # << >>
        /\ Len(HarakatOf(u)) > Len(HarakatOf(a))

\* C18: check_word_match returns a match when both letters strings are empty
\* and no match when exactly one is; every call returns a boolean, and where
\* a quotient is taken its divisor (max_len on line 128, the number of
\* reference diacritic pairs on line 139) is not zero.
C18_EmptyLettersGuard ==
    LET a == direct_call.ayah_word_normalized_for_content
        u == direct_call.user_word_normalized_for_content
        ayah_letters_compare == LettersOf(a)
        user_letters_compare == LettersOf(u)
        ayah_harakat == HarakatOf(a)
        max_len == Max2(Len(ayah_letters_compare), Len(user_letters_compare))
    IN  (direct_call.function = "check_word_match" /\ direct_call.returned) =>
            /\ direct_call.result \in BOOLEAN
            /\ (ayah_letters_compare = << >> /\ user_letters_compare = << >>)
                  => direct_call.result
            /\ (ayah_letters_compare = << >>) # (user_letters_compare = << >>)
                  => ~direct_call.result
            /\ (ayah_letters_compare # << >> /\ user_letters_compare # << >>)
                  => max_len > 0
            /\ (ayah_letters_compare = << >>) => ayah_harakat = << >>
            /\ ayah_harakat # << >> => Len(ayah_harakat) > 0

\* C18 witness: a reference word that is a lone fatha (no letters) scored
\* against a candidate with a letter: no match
C18_Witness ==
    /\ direct_call.function = "check_word_match"
    /\ direct_call.returned
    /\ direct_call.ayah_word_normalized_for_content = << FATHA >>
    /\ direct_call.user_word_normalized_for_content = << REH >>
    /\ ~direct_call.result

\* C19: the content normalization applied twice gives what it gives applied
\* once.
C19_NormalizationIdempotent ==
    (/\ direct_call.function = "normalize_arabic_text_for_comparison_content"
     /\ direct_call.calls = 2)
        => direct_call.twice = direct_call.once

\* C19 witness: a text with a verse marker between two spaces, which the
\* first application changes, normalized twice
C19_Witness ==
    /\ direct_call.function = "normalize_arabic_text_for_comparison_content"
    /\ direct_call.calls = 2
    /\ direct_call.text = << REH, SPACE, END_OF_AYAH, SPACE >>
    /\ direct_call.once = << REH >>
    /\ direct_call.twice = << REH >>

\* The calls that have returned
Returned == { c \in Calls : frames[c].pc = "done" }

\* C20: no cross-call state. A step of a grading call leaves the
\* invocation-pattern constants and the local names of every other call as
\* they are, and when all the concurrent calls have returned, whatever their
\* interleaving, the incorrect words of each are the ones the call produces
\* when run alone on its reference and its transcription.
C20_NoCrossCallState ==
    /\ [][module_globals' = module_globals]_vars
    /\ [][\A c \in Calls : (frames'[c] = frames[c]) \/
             (\A d \in Calls \ { c } : frames'[d] = frames[d])]_vars
    /\ []((Returned = Calls) =>
             (\A c \in Calls :
                 frames[c].response.incorrect_ayah_words =
                     RunAlone(StartFrame(frames[c].ayah_text_input,
                                         frames[c].original_transcription))
                         .response.incorrect_ayah_words))

\* Two calls on different requests are both inside the comparison loop, each
\* with its own cursor and its own incorrect list
C20_Witness ==
    /\ frames[1].pc = "while"
    /\ frames[2].pc = "end_for"
    /\ frames[1].ayah_text_input # frames[2].ayah_text_input
    /\ frames[1].user_word_idx # frames[2].user_word_idx
    /\ frames[1].incorrect_ayah_word_details # << >>
    /\ frames[2].incorrect_ayah_word_details # << >>
    /\ frames[1].incorrect_ayah_word_details # frames[2].incorrect_ayah_word_details

\* The relevant diacritics of w that stand before its first letter
RECURSIVE LeadingHarakat(_)
LeadingHarakat(w) ==
    IF w = << >> \/ IsLetter(Head(w)) THEN 0
    ELSE (IF Head(w) \in RELEVANT_HARAKAT THEN 1 ELSE 0) + LeadingHarakat(Tail(w))

\* The relevant diacritics of w
RelevantHarakat(w) == SelectSeq(w, LAMBDA c : c \in RELEVANT_HARAKAT)

\* C21: LetterProfile index invariant. Every (letter_index, mark) pair that
\* get_letters_and_harakat returns for a token has
\* 0 <= letter_index < len(letters) of the letters returned with it, and a
\* relevant diacritic met before any letter produces no pair.
C21_ProfileIndexInvariant ==
    (/\ direct_call.function = "get_letters_and_harakat"
     /\ direct_call.returned)
        => /\ \A i \in 1..Len(direct_call.harakat) :
                 /\ 0 <= direct_call.harakat[i][1]
                 /\ direct_call.harakat[i][1] < Len(direct_call.letters)
           /\ Len(direct_call.harakat) =
                 Len(RelevantHarakat(direct_call.word_normalized_for_content))
                 - LeadingHarakat(direct_call.word_normalized_for_content)

\* The transcript token at the zero-based index q satisfies check_word_match
\* against the reference word of the current iteration
TokenMatches(q) ==
    check_word_match(ayah_info.normalized_form_for_content_comparison,
                     transcribed_tokens_for_comparison_normalized[q + 1])

\* C22: first-match rule. When a reference word is matched, the matched
\* transcript position p is the smallest index >= cursor whose token
\* satisfies check_word_match against the reference word: no token in
\* [cursor, p) satisfies it, whatever the later tokens are.
C22_FirstMatch ==
    [][(pc = "while" /\ pc' = "absorb") =>
          /\ user_word_idx <= temp_user_idx_search'
          /\ temp_user_idx_search' < Len(transcribed_tokens_for_comparison_normalized)
          /\ TokenMatches(temp_user_idx_search')
          /\ \A q \in user_word_idx..(temp_user_idx_search' - 1) : ~TokenMatches(q)
          /\ match_positions' = Append(match_positions, temp_user_idx_search')
          /\ user_word_idx' = 1 + temp_user_idx_search']_vars

\* The first reference word is matched at a position after the cursor by a
\* token that lacks one of its diacritics, and a later token is the
\* reference word itself
C22_Witness ==
    /\ pc = "absorb"
    /\ ayah_info_idx = 0
    /\ temp_user_idx_search > 0
    /\ user_word_idx = temp_user_idx_search + 1
    /\ transcribed_tokens_for_comparison_normalized[temp_user_idx_search + 1]
          # ayah_info.normalized_form_for_content_comparison
    /\ \E q \in (temp_user_idx_search + 1)
                  ..(Len(transcribed_tokens_for_comparison_normalized) - 1) :
          transcribed_tokens_for_comparison_normalized[q + 1]
              = ayah_info.normalized_form_for_content_comparison

\* C23: scorer verdict. For two words with non-empty letters check_word_match
\* returns match exactly when letter_similarity >= letter_threshold and
\* diacritic_similarity >= tashkeel_threshold (1.0 for a reference without
\* recorded diacritics); when letter_similarity < letter_threshold the result
\* is no match whatever the diacritics are.
C23_ScorerVerdict ==
    LET a == direct_call.ayah_word_normalized_for_content
        u == direct_call.user_word_normalized_for_content
        lt == direct_call.letter_threshold
        tt == direct_call.tashkeel_threshold
        diacritic_threshold_met ==
            \/ HarakatOf(a) = << >>
            \/ PairsInCandidate(a, u) * 100 >= tt * Len(HarakatOf(a))
    IN  (/\ direct_call.function = "check_word_match"
         /\ direct_call.returned
         /\ LettersOf(a) # << >>
         /\ LettersOf(u) # << >>)
            => /\ direct_call.result =
                     (LetterThresholdMet(a, u, lt) /\ diacritic_threshold_met)
               /\ ~LetterThresholdMet(a, u, lt) => ~direct_call.result

\* The candidate carries every diacritic of the reference and its letters are
\* too far from the reference's: no match
C23_Witness ==
    LET a == direct_call.ayah_word_normalized_for_content
        u == direct_call.user_word_normalized_for_content
    IN  /\ direct_call.function = "check_word_match"
        /\ direct_call.returned
        /\ LettersOf(a) # << >>
        /\ LettersOf(u) # << >>
        /\ HarakatOf(a) # << >>
        /\ PairsInCandidate(a, u) = Len(HarakatOf(a))
        /\ ~LetterThresholdMet(a, u, direct_call.letter_threshold)
        /\ ~direct_call.result

\* The strings one insertion, deletion or substitution of a character of
\* LevenshteinAlphabet away from w, no longer than MaxStringLength + 1 (an
\* edit sequence of minimum length passes through no string longer than the
\* longer of its two ends)
SingleEdits(w) ==
    { [w EXCEPT ![i] = c] : i \in 1..Len(w), c \in LevenshteinAlphabet }
    \cup { Take(w, i - 1) \o Drop(w, i) : i \in 1..Len(w) }
    \cup (IF Len(w) > MaxStringLength THEN { }
          ELSE { Take(w, i) \o << c >> \o Drop(w, i) :
                    i \in 0..Len(w), c \in LevenshteinAlphabet })

\* The least number of further edits after which a string of S has become t,
\* S being the strings reached from the start in k edits or fewer
RECURSIVE MinimumEdits(_, _, _)
MinimumEdits(S, t, k) ==
    IF t \in S THEN k
    ELSE MinimumEdits(S \cup UNION { SingleEdits(w) : w \in S }, t, k + 1)

\* C24: levenshtein_distance(s1, s2) is the minimum number of
\* single-character insertions, deletions and substitutions that turn s1
\* into s2; it is symmetric, is 0 iff s1 = s2, and never exceeds
\* max(len(s1), len(s2)).
C24_LevenshteinIsMinimumEdits ==
    (/\ direct_call.function = "levenshtein_distance"
     /\ direct_call.returned)
        => /\ direct_call.result = MinimumEdits({ direct_call.s1 }, direct_call.s2, 0)
           /\ direct_call.result = levenshtein_distance(direct_call.s2, direct_call.s1)
           /\ (direct_call.result = 0) <=> (direct_call.s1 = direct_call.s2)
           /\ direct_call.result <= Max2(Len(direct_call.s1), Len(direct_call.s2))

\* A shorter first argument, which line 104 swaps, and a distance that needs a
\* substitution and an insertion
C24_Witness ==
    /\ direct_call.function = "levenshtein_distance"
    /\ direct_call.returned
    /\ direct_call.s1 = << REH, SEEN >>
    /\ direct_call.s2 = << SEEN, SEEN, REH >>
    /\ direct_call.result = 2

\* The chapter-header span of a reference whose first token is the chapter
\* word: the chapter word and one chapter-name token, or two when the token
\* right after the chapter word detection-normalizes to the article and a
\* further token exists
ChapterHeaderSpan(tokens) ==
    IF /\ Len(tokens) >= 3
       /\ normalize_text_for_detection(tokens[2]) = AL_LITERAL
    THEN 3
    ELSE 2

\* C25: chapter-header span. When the reference's first token is the chapter
\* word, header removal takes the tokens of the span from the front of the
\* reference and leaves the others in their order; a reference that holds no
\* more tokens than the span becomes empty, and its grading returns an empty
\* list.
C25_ChapterHeaderSpan ==
    LET tokens == SplitTokens(ayah_text_input)
        span == ChapterHeaderSpan(tokens)
    IN  /\ (pc = "fatiha_check" /\ StartsWithChapterWord(ayah_text_input)) =>
               /\ SplitTokens(processed_ayah_text_for_comparison)
                     = [ k \in 1..(Len(tokens) - span) |-> tokens[k + span] ]
               /\ Len(tokens) <= span => processed_ayah_text_for_comparison = << >>
        /\ (pc = "done" /\ StartsWithChapterWord(ayah_text_input) /\ Len(tokens) <= span) =>
               response.incorrect_ayah_words = << >>

\* A header of chapter word, article and name has been taken from before a
\* verse word
C25_Witness ==
    /\ pc = "fatiha_check"
    /\ StartsWithChapterWord(ayah_text_input)
    /\ ChapterHeaderSpan(SplitTokens(ayah_text_input)) = 3
    /\ Len(SplitTokens(ayah_text_input)) = 4
    /\ SplitTokens(processed_ayah_text_for_comparison) = << W_QUL_D >>

\* The incorrect list so far, and the one of the response once it is built
ReportedWords ==
    IF pc = "done" THEN response.incorrect_ayah_words ELSE incorrect_ayah_word_details

\* C26: the incorrect_words list is ordered by reference position. Its
\* positions are strictly increasing, so none appears twice; each lies in
\* [0, number of raw tokens of the post-strip reference); and each reported
\* word is the raw token at its position, not its normalized form.
C26_OrderedByReferencePosition ==
    (pc \in AlignerPcs \cup { "done" }) =>
        LET final_ayah_tokens_raw_for_loop == SplitTokens(processed_ayah_text_for_comparison)
            reported == ReportedWords
        IN  /\ \A k \in 1..(Len(reported) - 1) :
                   reported[k].position < reported[k + 1].position
            /\ \A k \in 1..Len(reported) : \A j \in 1..Len(reported) :
                   (reported[k].position = reported[j].position) => (k = j)
            /\ \A k \in 1..Len(reported) :
                   /\ 0 <= reported[k].position
                   /\ reported[k].position < Len(final_ayah_tokens_raw_for_loop)
                   /\ reported[k].word
                         = final_ayah_tokens_raw_for_loop[reported[k].position + 1]

\* A response that reports several words, one of them with a surface form
\* that its content normalization changes
C26_Witness ==
    /\ pc = "done"
    /\ Len(response.incorrect_ayah_words) >= 2
    /\ \E k \in 1..Len(response.incorrect_ayah_words) :
          normalize_arabic_text_for_comparison_content(response.incorrect_ayah_words[k].word)
              # response.incorrect_ayah_words[k].word

\* C27: temporary-file cleanup. When the audio stage of a request is over,
\* with a transcription or with an error, the temporary file the request
\* created is no longer in the temporary directory.
C27_TemporaryFileCleanup ==
    (audio.pc \in { "raised", "transcribed" }) => (audio.tmp_file_name \notin temp_dir)

\* C28: the response field transcribed_text is the unmodified ASR output.
\* From the moment the ASR output is bound to original_transcription until
\* the response is built no step changes it, and the response carries it;
\* stripping and normalization change the working copy and the tokens only.
C28_TranscribedTextIsAsrOutput ==
    /\ [][(pc \in { "surah_header", "fatiha_check", "basmala_strip", "prepare_tokens",
                    "for", "while", "absorb", "end_for", "return" })
             => (original_transcription' = original_transcription)]_vars
    /\ [](pc = "done" => response.transcribed_text = original_transcription)

\* The invocation has been stripped from the working copy, and the response
\* carries the transcription with it
C28_Witness ==
    /\ pc = "done"
    /\ StartsWithInvocation(SplitTokens(original_transcription))
    /\ processed_transcription_for_comparison # original_transcription
    /\ Len(transcribed_tokens_for_comparison_normalized)
          < Len(SplitTokens(original_transcription))
    /\ response.transcribed_text = original_transcription

\* The error_count stored for ayah_id in a table, 0 when it has no row
StoredCount(table, ayah_id) == IF ayah_id \in DOMAIN table THEN table[ayah_id] ELSE 0

\* The number of times ayah_id occurs in ayah_ids
Occurrences(ayah_ids, ayah_id) ==
    Cardinality({ i \in 1..Len(ayah_ids) : ayah_ids[i] = ayah_id })

\* C29: after any sequence of update_frequent_errors and
\* update_surah_progress calls every stored frequent-error row has
\* error_count >= 1: a first error inserts the row with count 1, each further
\* error adds 1, each learned ayah (of a surah that is found) subtracts 1, and
\* a row whose count reaches 0 is deleted.
C29_FrequentErrorCounts ==
    /\ \A id \in DOMAIN error_table : error_table[id] >= 1
    /\ crud_call.function = "update_frequent_errors" =>
          \A id \in AyahIds :
              StoredCount(error_table, id)
                  = StoredCount(crud_call.before, id) + Occurrences(crud_call.ayah_ids, id)
    /\ (crud_call.function = "update_surah_progress" /\ crud_call.total_ayahs > 0) =>
          \A id \in AyahIds :
              StoredCount(error_table, id)
                  = Max2(StoredCount(crud_call.before, id)
                             - Occurrences(crud_call.ayah_ids, id), 0)

\* The number of transcript tokens
TranscriptLength == Len(transcribed_tokens_for_comparison_normalized)

\* C30: cursor bounds. At every step of the aligner
\* 0 <= cursor <= len(transcript tokens); the scan index runs from the cursor
\* to len(transcript tokens); and a step of the forward scan or of the
\* duplicate-absorption loop that reads a transcript token reads it at an
\* index i with 0 <= i < len(transcript tokens).
C30_CursorBounds ==
    /\ []((pc \in AlignerPcs) =>
             /\ 0 <= user_word_idx
             /\ user_word_idx <= TranscriptLength)
    /\ []((pc = "while") =>
             /\ user_word_idx <= temp_user_idx_search
             /\ temp_user_idx_search <= TranscriptLength)
    /\ [][(pc = "while" /\ (pc' = "absorb" \/ temp_user_idx_search' # temp_user_idx_search))
             => (0 <= temp_user_idx_search /\ temp_user_idx_search < TranscriptLength)]_vars
    /\ [][(pc = "absorb" /\ pc' = "absorb")
             => (0 <= user_word_idx /\ user_word_idx < TranscriptLength)]_vars

\* The cursor stands at the end of a transcript with tokens while a further
\* reference word is scanned
C30_Witness ==
    /\ pc = "while"
    /\ TranscriptLength >= 2
    /\ user_word_idx = TranscriptLength
    /\ temp_user_idx_search = TranscriptLength
    /\ ayah_info_idx >= 1

====
